---------------------------- MODULE Spec2Model ----------------------------
(***************************************************************************)
(* Reeke scan-varying index generator (dials spot prediction).             *)
(*                                                                         *)
(* Number representation.  The inputs (setting matrices, axis, source) are *)
(* integer valued, so every quantity that the code obtains from them by    *)
(* +, - and * alone (the metric tensors, cp[0..20], cq[0..4] and the       *)
(* coefficients of the quadratics) is an exact integer.  Every other       *)
(* double (a quadratic root, a normalised vector, a p limit) is a          *)
(* fixed-point number: the integer x stands for x / Scale.  Arithmetic on   *)
(* such numbers rounds to nearest; a quadratic root is the real root       *)
(* rounded toward zero, so that its cast to int is the cast of the real    *)
(* root.  The cast (int) is truncation toward zero, as in C++.  The        *)
(* resolution is passed as dstarmax = 1 / dmin.                            *)
(* Arrays keep the 0-based indices of the source.                          *)
(***************************************************************************)
EXTENDS Integers, Sequences, FiniteSets, TLC

\* ------------------------------------------------------------------ bounds
Scale == 256

\* ------------------------------------------------------- integer arithmetic
Abs(x) == IF x < 0 THEN -x ELSE x

Min2(x, y) == IF y < x THEN y ELSE x

Max2(x, y) == IF x < y THEN y ELSE x

\* C++ division of integers / conversion double -> int: toward zero
TruncDiv(n, d) ==
  LET nn == IF d < 0 THEN -n ELSE n
      dd == Abs(d)
  IN  IF nn >= 0 THEN nn \div dd ELSE -((-nn) \div dd)

RECURSIVE ISqrtIter(_, _, _)
ISqrtIter(n, lo, hi) ==
  \* lo*lo <= n < hi*hi
  IF hi - lo <= 1 THEN lo
  ELSE LET mid == (lo + hi) \div 2
       IN  IF mid <= n \div mid THEN ISqrtIter(n, mid, hi)
                                ELSE ISqrtIter(n, lo, mid)

\* floor of the square root of n >= 0
ISqrt(n) == ISqrtIter(n, 0, n + 1)

\* af::min / af::max over a non-empty array
RECURSIVE SeqMin(_)
SeqMin(s) == IF Len(s) = 1 THEN s[1] ELSE Min2(s[1], SeqMin(Tail(s)))

RECURSIVE SeqMax(_)
SeqMax(s) == IF Len(s) = 1 THEN s[1] ELSE Max2(s[1], SeqMax(Tail(s)))

\* ------------------------------------------------------ fixed-point doubles
ToDbl(n) == n * Scale

\* conversion to the largest integer not above x
IntCastFloor(x) == x \div Scale

\* (int) x
IntCast(x) == TruncDiv(x, Scale)

\* n / d rounded to the nearest integer
RoundDiv(n, d) ==
  LET q == (2 * Abs(n) + Abs(d)) \div (2 * Abs(d))
  IN  IF (n < 0) = (d < 0) THEN q ELSE -q

FMul(x, y) == RoundDiv(x * y, Scale)

FDiv(x, y) == RoundDiv(x * Scale, y)

FSqrt(x) == (ISqrt(4 * x * Scale) + 1) \div 2

\* ------------------------------------------------------- vectors, matrices
Vec3(a, b, c) == [i \in 0..2 |-> IF i = 0 THEN a ELSE IF i = 1 THEN b ELSE c]

Vec2(a, b) == [i \in 0..1 |-> IF i = 0 THEN a ELSE b]

Dot(a, b) == a[0] * b[0] + a[1] * b[1] + a[2] * b[2]

Cross(a, b) == Vec3(a[1] * b[2] - a[2] * b[1],
                    a[2] * b[0] - a[0] * b[2],
                    a[0] * b[1] - a[1] * b[0])

Neg(a) == [i \in DOMAIN a |-> -a[i]]

\* column i of a row-major 3x3 matrix m[0..8]
Col(m, i) == Vec3(m[i], m[i + 3], m[i + 6])

\* row i of a row-major 3x3 matrix
Row(m, i) == Vec3(m[3 * i], m[3 * i + 1], m[3 * i + 2])

\* vec2 with its elements exchanged when out of order
sort2(a) == IF a[0] > a[1] THEN Vec2(a[1], a[0]) ELSE a

\* floor or ceiling of num / ww, whichever lies toward zero
TowardZero(num, ww, exact) ==
  IF num \div ww >= 0 \/ (exact /\ num % ww = 0)
    THEN num \div ww
    ELSE num \div ww + 1

\* s = floor(sqrt(n)), n = Scale^2 d, ww > 0
RootFromSqrt(uu, ss, ww, n, s) ==
  TowardZero(Scale * uu
               + (IF ss = 1 THEN s ELSE IF s * s = n THEN -s ELSE -s - 1),
             ww, s * s = n)

\* Scale * (u + sg * sqrt(d)) / w rounded toward zero, d > 0, w # 0
FixRoot(u, sg, d, w) ==
  RootFromSqrt(IF w < 0 THEN -u ELSE u, IF w < 0 THEN -sg ELSE sg, Abs(w),
               Scale * Scale * d, ISqrt(Scale * Scale * d))

\* two roots in ascending order
Ascending(x1, x2) == << Min2(x1, x2), Max2(x1, x2) >>

\* the roots for a # 0 and the discriminant given
QuadRoots(a, b, discriminant) ==
  IF discriminant < 0 THEN << >>
  ELSE IF discriminant = 0 THEN << TruncDiv(-b * Scale, 2 * a) >>
  ELSE Ascending(FixRoot(-b, -1, discriminant, 2 * a),
                 FixRoot(-b, 1, discriminant, 2 * a))

\* real roots of a x^2 + b x + c = 0 in ascending order
solve_quad(a, b, c) ==
  IF a = 0
    THEN IF b # 0 THEN << TruncDiv(-c * Scale, b) >> ELSE << >>
    ELSE QuadRoots(a, b, b * b - 4 * a * c)

\* ------------------------------------------------------------ permute_axes
\* The value std::abs(rl_dirs[i] * v) of a normalised column, kept exactly
\* as its square (c.v)^2 / (c.c)
AbsDotDir(ub, i, v) ==
  [num |-> Dot(Col(ub, i), v) * Dot(Col(ub, i), v),
   den |-> Dot(Col(ub, i), Col(ub, i))]

\* x > y for two such values
Greater(x, y) == x.num * y.den > y.num * x.den

RECURSIVE MaxIndexIter(_, _, _, _)
MaxIndexIter(a, n, i, result) ==
  IF i = n THEN result
  ELSE MaxIndexIter(a, n, i + 1, IF Greater(a[i], a[result]) THEN i ELSE result)

RECURSIVE MaxIndexIterLast(_, _, _, _)
MaxIndexIterLast(a, n, i, result) ==
  IF i = n THEN result
  ELSE MaxIndexIterLast(a, n, i + 1,
                        IF Greater(a[result], a[i]) THEN result ELSE i)

\* the index of the last maximum of a[0..n-1]
max_index_last(a, n) == MaxIndexIterLast(a, n, 1, 0)

\* af::max_index: index of the first maximum of a[0..n-1]
max_index(a, n) == MaxIndexIter(a, n, 1, 0)

\* an exchange that loses f[i]
SwapOverwrite(f, i, j) == [f EXCEPT ![i] = f[j]]

\* std::swap(f[i], f[j])
Swap(f, i, j) == [f EXCEPT ![i] = f[j], ![j] = f[i]]

p_index(ub, source) ==
  max_index([i \in 0..2 |-> AbsDotDir(ub, i, source)], 3)

r_index(ub, axis, index) ==
  max_index([i \in 0..1 |-> AbsDotDir(ub, index[i + 1], axis)], 2)

\* the 0/1 matrix with h, k, l = M * (p, q, r)
PermutationMatrix(index) ==
  [k \in 0..8 |-> IF \E c \in 0..2 : k = 3 * index[c] + c THEN 1 ELSE 0]

\* std::swap(index[2], index[r_index + 1])
PutRLast(ub, axis, index) == Swap(index, 2, r_index(ub, axis, index) + 1)

IndexAndMatrix(index) ==
  [index |-> index, permutation |-> PermutationMatrix(index)]

permute_axes(ub, axis, source) ==
  IndexAndMatrix(PutRLast(ub, axis,
                          Swap(Vec3(0, 1, 2), 0, p_index(ub, source))))

RowsFromCols(ub, index) ==
  [k \in 0..8 |-> ub[index[k \div 3] + 3 * (k % 3)]]

PermutedRows(ub_beg, ub_end, pa) ==
  [index |-> pa.index, permutation |-> pa.permutation,
   rlv_beg |-> RowsFromCols(ub_beg, pa.index),
   rlv_end |-> RowsFromCols(ub_end, pa.index)]

permute_matrix(ub_beg, ub_end, axis, source) ==
  PermutedRows(ub_beg, ub_end, permute_axes(ub_beg, axis, source))

\* mat3 * miller index (integer arithmetic)
MatVec(m, v) == Vec3(Dot(Row(m, 0), v), Dot(Row(m, 1), v), Dot(Row(m, 2), v))

Transpose(m) == [k \in 0..8 |-> m[3 * (k % 3) + (k \div 3)]]

\* ------------------------------------------------- compute_constant_with_p
\* P' = [ P | -source ], 3 x 4 row-major, P = rlv.transpose()
PPrime(rlv, source) ==
  LET pm == Transpose(rlv)
  IN  [k \in 0..11 |-> IF k % 4 = 3 THEN -source[k \div 4]
                                    ELSE pm[3 * (k \div 4) + (k % 4)]]

\* transpose_multiply(pp, pp, 3, 4, 4, t): t = pp^T pp, 4 x 4 row-major
MetricTensor(pp) ==
  [k \in 0..15 |-> pp[k \div 4] * pp[k % 4]
                 + pp[4 + (k \div 4)] * pp[4 + (k % 4)]
                 + pp[8 + (k \div 4)] * pp[8 + (k % 4)]]

ConstantsFromTensors(t_beg, t_end) ==
  [k \in 0..20 |->
        CASE k = 0  -> t_beg[10]
          [] k = 1  -> t_beg[11] * t_beg[11]
          [] k = 2  -> t_end[11] * t_end[11]
          [] k = 3  -> t_beg[2] * t_beg[11] - t_beg[3] * t_beg[10]
          [] k = 4  -> t_end[2] * t_end[11] - t_end[3] * t_end[10]
          [] k = 5  -> t_beg[2] * t_beg[2] - t_beg[0] * t_beg[10]
          [] k = 6  -> t_beg[6] * t_beg[11] - t_beg[7] * t_beg[10]
          [] k = 7  -> t_end[6] * t_end[11] - t_end[7] * t_end[10]
          [] k = 8  -> t_beg[2] * t_beg[6] - t_beg[1] * t_beg[10]
          [] k = 9  -> t_beg[6] * t_beg[6] - t_beg[5] * t_beg[10]
          [] k = 10 -> 2 * t_beg[2]
          [] k = 11 -> 2 * t_beg[6]
          [] k = 12 -> t_beg[0]
          [] k = 13 -> t_beg[5]
          [] k = 14 -> 2 * t_beg[1]
          [] k = 15 -> 2 * t_beg[11]
          [] k = 16 -> 2 * t_end[11]
          [] k = 17 -> 2 * t_beg[7]
          [] k = 18 -> 2 * t_end[7]
          [] k = 19 -> 2 * t_beg[3]
          [] k = 20 -> 2 * t_end[3]]

compute_constant_with_p(rlv_beg, rlv_end, axis, source) ==
  ConstantsFromTensors(MetricTensor(PPrime(rlv_beg, source)),
                       MetricTensor(PPrime(rlv_end, source)))

\* -------------------------------------------------------------- ReekeModel
\* boost::optional< vec2<int> >: << >> is the empty optional
None == << >>

Some(v) == << v >>

\* (int)min - margin, (int)max + margin of a non-empty array of roots
Widen(limits, margin) ==
  Vec2(IntCast(SeqMin(limits)) - margin, IntCast(SeqMax(limits)) + margin)

\* no limits when there is no root, else the roots widened to integers
WidenIfAny(limits, margin) ==
  IF Len(limits) = 0 THEN None ELSE Some(Widen(limits, margin))

resolution_q_limits(m, p) ==
  WidenIfAny(solve_quad(m.cp[9], 2 * p * m.cp[8],
                        p * p * m.cp[5] + m.cp[0] * m.dstarmax2),
             m.margin)

ewald_sphere_q_limits(m, p) ==
  WidenIfAny(solve_quad(m.cp[9], 2 * (m.cp[6] + p * m.cp[8]),
                        m.cp[1] + p * (2 * m.cp[3] + p * m.cp[5]))
             \o solve_quad(m.cp[9], 2 * (m.cp[7] + p * m.cp[8]),
                           m.cp[2] + p * (2 * m.cp[4] + p * m.cp[5])),
             m.margin)

\* std::sort of four integers
Sort4(x) ==
  << Min2(Min2(x[1], x[2]), Min2(x[3], x[4])),
     Min2(Max2(Min2(x[1], x[2]), Min2(x[3], x[4])),
          Min2(Max2(x[1], x[2]), Max2(x[3], x[4]))),
     Max2(Max2(Min2(x[1], x[2]), Min2(x[3], x[4])),
          Min2(Max2(x[1], x[2]), Max2(x[3], x[4]))),
     Max2(Max2(x[1], x[2]), Max2(x[3], x[4])) >>

\* the two middle values of the four limits, as a closed-open range
InnerLimits(limits) == Vec2(limits[2], limits[3] + 1)

\* choose the most restrictive of the Ewald and resolution limits
MostRestrictive(res_q_lim, ewald_q_lim) ==
  IF res_q_lim = None \/ ewald_q_lim = None THEN Vec2(0, 0)
  ELSE InnerLimits(Sort4(<< ewald_q_lim[1][0], ewald_q_lim[1][1],
                            res_q_lim[1][0], res_q_lim[1][1] >>))

q_limits(m, p) ==
  MostRestrictive(resolution_q_limits(m, p), ewald_sphere_q_limits(m, p))

\* quantities that vary with p but are constant with q
ConstantWithQ(m, p) ==
  [k \in 0..4 |->
     CASE k = 0 -> p * m.cp[10]
       [] k = 1 -> p * p * m.cp[12]
       [] k = 2 -> p * m.cp[14]
       [] k = 3 -> p * m.cp[19]
       [] k = 4 -> p * m.cp[20]]

resolution_r_limits(m, p, q, cq) ==
  WidenIfAny(solve_quad(m.cp[0], cq[0] + q * m.cp[11],
                        cq[1] + q * q * m.cp[13] + q * cq[2] - m.dstarmax2),
             m.margin)

\* both quadratics have roots: two ranges, between the smaller roots and
\* between the larger roots
TwoRanges(min_beg, max_beg, min_end, max_end, margin) ==
  << Vec2(IntCast(Min2(min_beg, min_end)) - margin,
          IntCast(Max2(min_beg, min_end)) + margin),
     Vec2(IntCast(Min2(max_beg, max_end)) - margin,
          IntCast(Max2(max_beg, max_end)) + margin) >>

\* one range for each quadratic that has roots
OneRangeEach(limits_beg, limits_end, margin) ==
  (IF Len(limits_beg) > 0 THEN << Widen(limits_beg, margin) >> ELSE << >>)
  \o (IF Len(limits_end) > 0 THEN << Widen(limits_end, margin) >> ELSE << >>)

EwaldRanges(limits_beg, limits_end, margin) ==
  IF Len(limits_beg) > 0 /\ Len(limits_end) > 0
    THEN TwoRanges(SeqMin(limits_beg), SeqMax(limits_beg),
                   SeqMin(limits_end), SeqMax(limits_end), margin)
    ELSE OneRangeEach(limits_beg, limits_end, margin)

ewald_sphere_r_limits(m, p, q, cq) ==
  EwaldRanges(
    solve_quad(m.cp[0], cq[0] + q * m.cp[11] + m.cp[15],
               cq[1] + q * (cq[2] + m.cp[17]) + q * q * m.cp[13] + cq[3]),
    solve_quad(m.cp[0], cq[0] + q * m.cp[11] + m.cp[15],
               cq[1] + q * (cq[2] + m.cp[18]) + q * q * m.cp[13] + cq[4]),
    m.margin)

\* the Ewald range left as it is
ClipToResolutionNone(res_r_lim, e) == e

\* one Ewald range restricted to the resolution range
ClipToResolution(res_r_lim, e) ==
  Vec2(IF res_r_lim[0] > e[0] THEN res_r_lim[0] ELSE e[0],
       IF res_r_lim[1] < e[1] THEN res_r_lim[1] ELSE e[1])

\* every clipped interval kept, the empty ones too
PushClippedAll(result, e) == Append(result, Vec2(e[0], e[1] + 1))

\* the clipped range is kept, as a closed-open range, when e[0] < e[1]
PushClipped(result, e) ==
  IF e[0] < e[1] THEN Append(result, Vec2(e[0], e[1] + 1)) ELSE result

RECURSIVE ClipLoop(_, _, _, _)
ClipLoop(res_r_lim, ewald_r_lim, i, result) ==
  IF i > Len(ewald_r_lim) THEN result
  ELSE ClipLoop(res_r_lim, ewald_r_lim, i + 1,
                PushClipped(result, ClipToResolution(res_r_lim, ewald_r_lim[i])))

\* if (result[1][0] < result[0][0]) std::swap(result[0], result[1])
SwapRanges(result) ==
  IF result[2][0] < result[1][0] THEN << result[2], result[1] >> ELSE result

\* two intervals left as they are
TruncateSecondNone(result) == result

\* if (result[1][0] < result[0][1]) result[1][0] = result[0][1]
TruncateSecond(result) ==
  IF result[2][0] < result[1][1]
    THEN << result[1], Vec2(result[1][1], result[2][1]) >>
    ELSE result

\* the intervals returned as the clipping loop left them
OrderRangesNone(result) == result

OrderRanges(result) ==
  IF Len(result) = 2 THEN TruncateSecond(SwapRanges(result)) ELSE result

\* no range without resolution limits, else the Ewald ranges clipped to the
\* resolution limits, in order and non-overlapping
ClipAndOrder(res_r_lim, ewald_r_lim) ==
  IF res_r_lim = None THEN << >>
  ELSE OrderRanges(ClipLoop(res_r_lim[1], ewald_r_lim, 1, << >>))

RLimitsWith(m, p, q, cq) ==
  ClipAndOrder(resolution_r_limits(m, p, q, cq),
               ewald_sphere_r_limits(m, p, q, cq))

r_limits(m, p, q) == RLimitsWith(m, p, q, ConstantWithQ(m, p))

\* vec3<double>::normalize of an integer vector
Normalize(n) ==
  LET length == FSqrt(ToDbl(Dot(n, n)))
  IN  [i \in 0..2 |-> FDiv(ToDbl(n[i]), length)]

\* if (rlv0 * v < 0.0) v = -v
TowardIncreasingP(rlv0, v) == IF Dot(rlv0, v) < 0 THEN Neg(v) ELSE v

\* unit normal to the planes of constant p, pointing to increasing p
PlaneNormal(rlv) ==
  TowardIncreasingP(Row(rlv, 0), Normalize(Cross(Row(rlv, 1), Row(rlv, 2))))

SignOf(x) == IF x >= 0 THEN 1 ELSE -1

SourceLength(source) == FSqrt(ToDbl(Dot(source, source)))

\* one Ewald sphere p limit, sorted
EwaldPLim(v, source, dp, p_dist) ==
  LET sign == SignOf(Dot(v, source))
  IN  sort2(Vec2(FDiv((-sign) * (SourceLength(source) - dp), p_dist),
                 FDiv(sign * (SourceLength(source) + dp), p_dist)))

compute_ewald_sphere_p_limits(source, v_beg, v_end, dp_beg, dp_end, p_dist) ==
  [beg |-> EwaldPLim(v_beg, source, dp_beg, p_dist),
   end |-> EwaldPLim(v_end, source, dp_end, p_dist)]

Wavelength(source) == FDiv(ToDbl(1), SourceLength(source))

SinTheta(source, dstarmax) ==
  TruncDiv(FMul(Wavelength(source), ToDbl(dstarmax)), 2)

\* DIALS_ASSERT(sin_theta <= 1.0 && sin_theta >= -1.0)
SinThetaOk(source, dstarmax) ==
  /\ SinTheta(source, dstarmax) <= ToDbl(1)
  /\ SinTheta(source, dstarmax) >= 0 - ToDbl(1)

\* std::sin(2.0 * std::asin(x)) = 2 x sqrt(1 - x^2)
Sin2Asin(x) == 2 * FMul(x, FSqrt(ToDbl(1) - FMul(x, x)))

\* ((se - f) / p_dist, (se + f) / p_dist), sorted
SortedAbout(se, f, p_dist) ==
  sort2(Vec2(FDiv(se - f, p_dist), FDiv(se + f, p_dist)))

\* one resolution p limit, sorted
ResPLim(sign, sin_theta, wavelength_sq, dp, p_dist) ==
  SortedAbout(sign * 2 * FMul(FMul(sin_theta, sin_theta), dp),
              FMul(Sin2Asin(sin_theta),
                   FSqrt(Max2(FDiv(ToDbl(1), wavelength_sq) - FMul(dp, dp),
                              0))),
              p_dist)

ResPLims(sign, sin_theta, wavelength_sq, dp_beg, dp_end, p_dist) ==
  [beg |-> ResPLim(sign, sin_theta, wavelength_sq, dp_beg, p_dist),
   end |-> ResPLim(sign, sin_theta, wavelength_sq, dp_end, p_dist)]

compute_resolution_p_limits(source, dstarmax, v_end, dp_beg, dp_end, p_dist) ==
  ResPLims(SignOf(Dot(v_end, source)), SinTheta(source, dstarmax),
           FMul(Wavelength(source), Wavelength(source)),
           dp_beg, dp_end, p_dist)

\* select between Ewald and resolution limits on the basis of sign
SelectLimits(sign, ewald, res) ==
  IF sign < 0
    THEN << Max2(res.beg[0], ewald.beg[0]), Max2(res.end[0], ewald.end[0]),
            Max2(res.beg[1], ewald.beg[1]), Max2(res.end[1], ewald.end[1]) >>
    ELSE << Min2(res.beg[0], ewald.beg[0]), Min2(res.end[0], ewald.end[0]),
            Min2(res.beg[1], ewald.beg[1]), Min2(res.end[1], ewald.end[1]) >>

\* single set of limits covering the overall range
PLimFromLimits(limits, margin) ==
  Vec2(IntCast(SeqMin(limits)) - margin, IntCast(SeqMax(limits)) + margin + 1)

\* the limits kept by the model
SelectedPLimits(sign, ewald, res, margin) ==
  [ewald_p_lim_beg |-> ewald.beg, ewald_p_lim_end |-> ewald.end,
   res_p_lim_beg |-> res.beg, res_p_lim_end |-> res.end,
   p_lim |-> PLimFromLimits(SelectLimits(sign, ewald, res), margin)]

PLimitsFromDistances(source, dstarmax, margin, v_beg, v_end, p_dist, dp_beg, dp_end) ==
  SelectedPLimits(SignOf(Dot(v_end, source)),
                  compute_ewald_sphere_p_limits(source, v_beg, v_end,
                                                dp_beg, dp_end, p_dist),
                  compute_resolution_p_limits(source, dstarmax, v_end,
                                              dp_beg, dp_end, p_dist),
                  margin)

PLimitsFromNormals(rlv_beg0, source, dstarmax, margin, v_beg, v_end) ==
  PLimitsFromDistances(source, dstarmax, margin, v_beg, v_end,
                       Abs(Dot(rlv_beg0, v_beg)),
                       Abs(Dot(v_beg, source)), Abs(Dot(v_end, source)))

compute_p_limits(rlv_beg, rlv_end, source, dstarmax, margin) ==
  PLimitsFromNormals(Row(rlv_beg, 0), source, dstarmax, margin,
                     PlaneNormal(rlv_beg), PlaneNormal(rlv_end))

\* the model constructed with one more than the margin asked for
ModelFromRowsWider(perm, axis, source, dstarmax, margin) ==
  [permutation |-> perm.permutation,
   cp          |-> compute_constant_with_p(perm.rlv_beg, perm.rlv_end,
                                           axis, source),
   p_lim       |-> compute_p_limits(perm.rlv_beg, perm.rlv_end, source,
                                    dstarmax, margin + 1).p_lim,
   dstarmax2   |-> dstarmax * dstarmax,
   margin      |-> margin + 1]

ModelFromRows(perm, axis, source, dstarmax, margin) ==
  [permutation |-> perm.permutation,
   cp          |-> compute_constant_with_p(perm.rlv_beg, perm.rlv_end,
                                           axis, source),
   p_lim       |-> compute_p_limits(perm.rlv_beg, perm.rlv_end, source,
                                    dstarmax, margin).p_lim,
   dstarmax2   |-> dstarmax * dstarmax,
   margin      |-> margin]

\* the state of a ReekeModel after construction
ReekeModel(ub_beg, ub_end, axis, source, dstarmax, margin) ==
  ModelFromRows(permute_matrix(ub_beg, ub_end, axis, source),
                axis, source, dstarmax, margin)

\* ----------------------------------------------------- ReekeIndexGenerator
Zero == Vec3(0, 0, 0)

is_zero(h) == h = Zero

\* the function-local statics of next_pqr, as they are at program start
StaticInit ==
  [p |-> Vec2(0, 0), q |-> Vec2(0, 0), r |-> << >>, ridx |-> 0,
   state |-> "enter"]

\* the index under the cursors: (p[0], q[0], r[ridx][0])
Cursor(st) == Vec3(st.p[0], st.q[0], st.r[st.ridx + 1][0])

\* a return of whatever lies under the cursors
YieldsAlways(result) == TRUE

\* if (!result.is_zero()) return result;
Yields(result) == ~ is_zero(result)

\* after the loops: state = enter
Exhaust(st) == [st EXCEPT !.state = "enter"]

\* an increment that passes over an index
IncrRTwice(st) == [st EXCEPT !.r[st.ridx + 1][0] = @ + 2]

\* ++r[ridx][0]
IncrR(st) == [st EXCEPT !.r[st.ridx + 1][0] = @ + 1]

\* The loops of next_pqr, entered at the program point pc, run up to the
\* next return.
RECURSIVE Resume(_, _, _)
Resume(st, m, pc) ==
  CASE pc = "p_test" ->
         IF st.p[0] < st.p[1]
           THEN Resume([st EXCEPT !.q = q_limits(m, st.p[0])], m, "q_test")
           ELSE [st |-> Exhaust(st), result |-> Zero]
    [] pc = "q_test" ->
         IF st.q[0] < st.q[1]
           THEN Resume([st EXCEPT !.r = r_limits(m, st.p[0], st.q[0]),
                                  !.ridx = 0], m, "ridx_test")
           ELSE Resume([st EXCEPT !.p[0] = @ + 1], m, "p_test")
    [] pc = "ridx_test" ->
         IF st.ridx < Len(st.r)
           THEN Resume(st, m, "r_test")
           ELSE Resume([st EXCEPT !.q[0] = @ + 1], m, "q_test")
    [] pc = "r_test" ->
         IF st.r[st.ridx + 1][0] < st.r[st.ridx + 1][1]
           THEN IF Yields(Cursor(st))
                  THEN [st |-> st, result |-> Cursor(st)]
                  ELSE Resume(st, m, "r_incr")
           ELSE Resume([st EXCEPT !.ridx = @ + 1], m, "ridx_test")
    [] pc = "r_incr" -> Resume(IncrR(st), m, "r_test")

\* a dispatch that starts the loops on every call
next_pqr_restart(st, m) ==
  Resume([st EXCEPT !.state = "yield", !.p = m.p_lim], m, "p_test")

\* switch (state): enter starts the loops, yield continues after the return
next_pqr(st, m) ==
  Resume(IF st.state = "enter"
           THEN [st EXCEPT !.state = "yield", !.p = m.p_lim]
           ELSE st,
         m, IF st.state = "enter" THEN "p_test" ELSE "r_incr")

\* the statics after the call and the index in h, k, l
Permuted(m, n) == [st |-> n.st, result |-> MatVec(m.permutation, n.result)]

\* model_.permutation() * next_pqr()
next(st, m) == Permuted(m, next_pqr(st, m))

\* to_array: call next until (000) is reached; calls lists every value
\* that next returned
RECURSIVE ToArrayLoop(_, _, _, _)
RECURSIVE Collect(_, _, _, _)
\* n is what next returned: stop at (000), else keep it and go on
Collect(m, result, calls, n) ==
  IF is_zero(n.result)
    THEN [st |-> n.st, result |-> result, calls |-> Append(calls, n.result)]
    ELSE ToArrayLoop(n.st, m, Append(result, n.result),
                     Append(calls, n.result))

ToArrayLoop(st, m, result, calls) == Collect(m, result, calls, next(st, m))

to_array(st, m) == ToArrayLoop(st, m, << >>, << >>)

\* ------------------------------------------------------------------ inputs
\* a 9-tuple or 3-tuple as a 0-based array
Arr(s) == [i \in 0..(Len(s) - 1) |-> s[i + 1]]

Config(ub_beg, ub_end, axis, s0, dstarmax, margin) ==
  [ub_beg |-> Arr(ub_beg), ub_end |-> Arr(ub_end), axis |-> Arr(axis),
   s0 |-> Arr(s0), dstarmax |-> dstarmax, margin |-> margin]

Identity == << 1, 0, 0, 0, 1, 0, 0, 0, 1 >>

\* the identity sheared: the setting at the end of the image
ShearB == << 1, 0, 0, 0, 1, 1, 0, 0, 1 >>

\* the settings the generators are built from
Configs ==
  { Config(Identity, Identity, << 1, 0, 0 >>, << 0, 0, 1 >>, 1, 1),
    Config(Identity, ShearB, << 0, 1, 0 >>, << 0, -2, -2 >>, 2, 0),
    Config(Identity, Identity, << 1, 0, 0 >>, << 0, 0, 1 >>, 1, 0) }

\* ReekeIndexGenerator(ub_beg, ub_end, axis, s0, dmin, margin):
\* model_(ub_beg, ub_end, axis, -s0, dmin, margin)
Build(c) ==
  ReekeModel(c.ub_beg, c.ub_end, c.axis, Neg(c.s0), c.dstarmax, c.margin)

\* the constructor returns only when the assertion on sin_theta holds
Constructible(c) == SinThetaOk(Neg(c.s0), c.dstarmax)

\* ------------------------------------------------------------------- state
\* calls followed on a generator that shares its life with another one
MaxCalls == 2

\* calls followed on a generator that is alone
MaxSoloCalls == 7

\* generators constructed in one run
MaxGens == 2

Gen == {1, 2}

NoGen == [live |-> FALSE]

VARIABLES
  statics,  \* the statics of next_pqr, shared by every generator
  gen,      \* gen[g]: the generator object in slot g, or NoGen
  made,     \* the number of generators constructed so far
  out,      \* out[g]: the values next() has returned to the holder of g
  arr,      \* arr[g]: << a >> when the last to_array() on g returned a
  solo,     \* solo[g]: no other generator was live during the life of g
  last,     \* the value returned by the most recent call of next()
  arg,      \* the arguments of the function under study
  ret       \* its result, once applied

vars == << statics, gen, made, out, arr, solo, last, arg, ret >>

\* before the first call of next()
NoCall == [called |-> FALSE]

Returned(h) == [called |-> TRUE, value |-> h]

\* no function under study
NoArg == [fn |-> "none"]

NoRet == [done |-> FALSE]

\* program start: no generator yet, the statics as initialised
NoGenerators ==
  /\ statics = StaticInit
  /\ gen = [g \in Gen |-> NoGen]
  /\ made = 0
  /\ out = [g \in Gen |-> << >>]
  /\ arr = [g \in Gen |-> << >>]
  /\ solo = [g \in Gen |-> FALSE]
  /\ last = NoCall

Init ==
  /\ NoGenerators
  /\ arg = NoArg
  /\ ret = NoRet

\* ReekeIndexGenerator indices(...)
Construct(g, c) ==
  /\ ~ gen[g].live
  /\ \A k \in Gen : k < g => gen[k].live
  /\ made < MaxGens
  /\ Constructible(c)
  /\ gen' = [gen EXCEPT ![g] = [live |-> TRUE, model_ |-> Build(c)]]
  /\ made' = made + 1
  /\ out' = [out EXCEPT ![g] = << >>]
  /\ arr' = [arr EXCEPT ![g] = << >>]
  /\ solo' = [h \in Gen |-> IF h = g THEN \A k \in Gen : ~ gen[k].live
                                     ELSE FALSE]
  /\ UNCHANGED << statics, last, arg, ret >>

\* the calls on g are followed up to a bound
Followed(g) ==
  Len(out[g]) < (IF solo[g] THEN MaxSoloCalls ELSE MaxCalls)

\* h = indices.next()
CallNext(g) ==
  /\ gen[g].live
  /\ Followed(g)
  /\ \E n \in { next(statics, gen[g].model_) } :
       /\ statics' = n.st
       /\ last' = Returned(n.result)
       /\ out' = [out EXCEPT ![g] = Append(@, n.result)]
  /\ UNCHANGED << gen, made, arr, solo, arg, ret >>

\* a = indices.to_array()
CallToArray(g) ==
  /\ gen[g].live
  /\ Followed(g)
  /\ \E a \in { to_array(statics, gen[g].model_) } :
       /\ statics' = a.st
       /\ last' = Returned(a.calls[Len(a.calls)])
       /\ out' = [out EXCEPT ![g] = @ \o a.calls]
       /\ arr' = [arr EXCEPT ![g] = << a.result >>]
  /\ UNCHANGED << gen, made, solo, arg, ret >>

\* the generator goes out of scope
Drop(g) ==
  /\ gen[g].live
  /\ gen' = [gen EXCEPT ![g] = NoGen]
  /\ out' = [out EXCEPT ![g] = << >>]
  /\ arr' = [arr EXCEPT ![g] = << >>]
  /\ solo' = [solo EXCEPT ![g] = FALSE]
  /\ UNCHANGED << statics, made, last, arg, ret >>

Next ==
  \/ \E g \in Gen, c \in Configs : Construct(g, c)
  \/ \E g \in Gen : CallNext(g)
  \/ \E g \in Gen : CallToArray(g)
  \/ \E g \in Gen : Drop(g)

Spec == Init /\ [][Next]_vars

\* the generator goes out of scope with no traversal under way
Retire(g) ==
  /\ statics.state = "enter"
  /\ Drop(g)

\* One generator at a time, each traversed alone from its construction and
\* never left in the middle of a traversal.
SoloNext ==
  \/ \E c \in Configs : Construct(1, c)
  \/ CallNext(1)
  \/ CallToArray(1)
  \/ Retire(1)

SpecSolo == Init /\ [][SoloNext]_vars

\* The consumer's loop reaches its call: h = indices.next() on g. The
\* consumer keeps no record of the values.
Invoke(g) ==
  /\ arg = NoArg
  /\ gen[g].live
  /\ arg' = [fn |-> "next", g |-> g]
  /\ UNCHANGED << statics, gen, made, out, arr, solo, last, ret >>

\* The call that was reached runs next() and returns.
Execute ==
  /\ arg # NoArg
  /\ \E n \in { next(statics, gen[arg.g].model_) } :
       /\ statics' = n.st
       /\ last' = Returned(n.result)
  /\ arg' = NoArg
  /\ UNCHANGED << gen, made, out, arr, solo, ret >>

LiveNext ==
  \/ \E g \in Gen, c \in Configs : Construct(g, c)
  \/ \E g \in Gen : Invoke(g)
  \/ Execute

\* no call is in flight
Idle == arg = NoArg

\* The consumers of a generator (to_array, the prediction drivers) call
\* next() in a loop until it returns (0,0,0): a call that can be reached is
\* reached, and a call that was reached runs. Execute is enabled exactly
\* when ~ Idle and always leads to Idle, so []<>Idle is WF_vars(Execute).
SpecLive ==
  /\ Init
  /\ [][LiveNext]_vars
  /\ WF_vars(\E g \in Gen : Invoke(g))
  /\ []<>Idle

\* ------------------------------------------ generators of an empty shell
\* a setting whose shortest reciprocal lattice vectors have length 2
Twice == << 2, 0, 0, 0, 2, 0, 0, 0, 2 >>

\* the same lattice under a resolution limit d*max = 1, without and with a
\* margin, and a setting that has indices to walk
ShellConfigs ==
  { Config(Twice, Twice, << 1, 0, 0 >>, << 0, 0, 1 >>, 1, 0),
    Config(Twice, Twice, << 1, 0, 0 >>, << 0, 0, 1 >>, 1, 1),
    Config(Identity, Identity, << 1, 0, 0 >>, << 0, 0, 1 >>, 1, 1) }

ShellNext ==
  \/ \E g \in Gen, c \in ShellConfigs : Construct(g, c)
  \/ \E g \in Gen : CallNext(g)
  \/ \E g \in Gen : CallToArray(g)
  \/ \E g \in Gen : Drop(g)

SpecShell == Init /\ [][ShellNext]_vars

\* ------------------------------- generators of a lattice that is sheared
\* the identity sheared the other way
LowerShear == << 1, 0, 0, 0, 1, 0, 0, 1, 1 >>

\* a setting sheared one way at the beginning and the other way at the end,
\* d*max = 2, without and with a margin, and the cubic setting
SphereConfigs ==
  { Config(ShearB, LowerShear, << 0, 0, 1 >>, << 2, 1, 1 >>, 2, 0),
    Config(ShearB, LowerShear, << 0, 0, 1 >>, << 2, 1, 1 >>, 2, 1),
    Config(Identity, Identity, << 1, 0, 0 >>, << 0, 0, 1 >>, 1, 1) }

\* one generator at a time, as in SoloNext
SphereNext ==
  \/ \E c \in SphereConfigs : Construct(1, c)
  \/ CallNext(1)
  \/ CallToArray(1)
  \/ Retire(1)

SpecSphere == Init /\ [][SphereNext]_vars

\* ------------------------------------------------- permute_axes on its own
\* components of the axis and source vectors
VecBound == 1

Vecs ==
  { Vec3(x, y, z) : x \in -VecBound..VecBound, y \in -VecBound..VecBound,
                    z \in -VecBound..VecBound }

\* a setting with two equal columns, one with a zero column
TwinColumns == << 1, 1, 0, 0, 0, 1, 1, 1, 0 >>

ZeroColumn == << 0, 1, 0, 0, 0, 1, 0, 0, 0 >>

Settings == { Arr(Identity), Arr(ShearB), Arr(TwinColumns), Arr(ZeroColumn) }

InitPerm ==
  /\ NoGenerators
  /\ \E ub \in Settings, axis \in Vecs, source \in Vecs :
       arg = [fn |-> "permute_axes", ub |-> ub, axis |-> axis,
              source |-> source]
  /\ ret = NoRet

\* permute_axes(ub, axis, source)
ApplyPermuteAxes ==
  /\ arg.fn = "permute_axes"
  /\ ~ ret.done
  /\ ret' = [done |-> TRUE,
             value |-> permute_axes(arg.ub, arg.axis, arg.source)]
  /\ UNCHANGED << statics, gen, made, out, arr, solo, last, arg >>

PermNext == ApplyPermuteAxes

SpecPerm == InitPerm /\ [][PermNext]_vars

\* ----------------------------------------------------- r_limits on its own
\* the values of p and of q
PQBound == 2

InitR ==
  /\ NoGenerators
  /\ \E c \in Configs, p \in -PQBound..PQBound, q \in -PQBound..PQBound :
       arg = [fn |-> "r_limits", model_ |-> Build(c), p |-> p, q |-> q]
  /\ ret = NoRet

\* model_.r_limits(p, q)
ApplyRLimits ==
  /\ arg.fn = "r_limits"
  /\ ~ ret.done
  /\ ret' = [done |-> TRUE, value |-> r_limits(arg.model_, arg.p, arg.q)]
  /\ UNCHANGED << statics, gen, made, out, arr, solo, last, arg >>

RNext == ApplyRLimits

SpecR == InitR /\ [][RNext]_vars

\* ---------------------------------------------------- q_limits under study
\* q is the candidate index tested against the returned range
InitQ ==
  /\ NoGenerators
  /\ \E c \in Configs, p \in -PQBound..PQBound, q \in -PQBound..PQBound :
       arg = [fn |-> "q_limits", model_ |-> Build(c), p |-> p, q |-> q]
  /\ ret = NoRet

\* model_.q_limits(p)
ApplyQLimits ==
  /\ arg.fn = "q_limits"
  /\ ~ ret.done
  /\ ret' = [done |-> TRUE, value |-> q_limits(arg.model_, arg.p)]
  /\ UNCHANGED << statics, gen, made, out, arr, solo, last, arg >>

QNext == ApplyQLimits

SpecQ == InitQ /\ [][QNext]_vars

\* -------------------------------------------- compute_p_limits under study
\* largest resolution and margins the model is constructed with
Resolutions == {1, 2}

Margins == {0, 1}

InitP ==
  /\ NoGenerators
  /\ \E ub_end \in {Arr(Identity), Arr(ShearB)}, source \in Vecs \ {Zero},
        dstarmax \in Resolutions, margin \in Margins :
       /\ SinThetaOk(source, dstarmax)
       /\ arg = [fn |-> "compute_p_limits", ub_beg |-> Arr(Identity),
                 ub_end |-> ub_end, axis |-> Vec3(1, 0, 0), source |-> source,
                 dstarmax |-> dstarmax, margin |-> margin]
  /\ ret = NoRet

\* the constructor of ReekeModel up to compute_p_limits(rlv_beg, rlv_end)
PLimitsOfRows(perm, source, dstarmax, margin) ==
  compute_p_limits(perm.rlv_beg, perm.rlv_end, source, dstarmax, margin)

ApplyComputePLimits ==
  /\ arg.fn = "compute_p_limits"
  /\ ~ ret.done
  /\ ret' = [done |-> TRUE,
             value |-> PLimitsOfRows(permute_matrix(arg.ub_beg, arg.ub_end,
                                                    arg.axis, arg.source),
                                     arg.source, arg.dstarmax, arg.margin)]
  /\ UNCHANGED << statics, gen, made, out, arr, solo, last, arg >>

PNext == ApplyComputePLimits

SpecP == InitP /\ [][PNext]_vars

\* --------------------------------------------------------- reference walk
\* for r in [lo, hi): yield M (p, q, r) unless (p, q, r) = (0, 0, 0)
RECURSIVE WalkInterval(_, _, _, _, _)
WalkInterval(m, p, q, lo, hi) ==
  IF lo >= hi THEN << >>
  ELSE (IF Vec3(p, q, lo) = Zero THEN << >>
        ELSE << MatVec(m.permutation, Vec3(p, q, lo)) >>)
       \o WalkInterval(m, p, q, lo + 1, hi)

RECURSIVE WalkIntervals(_, _, _, _, _)
WalkIntervals(m, p, q, ivs, i) ==
  IF i > Len(ivs) THEN << >>
  ELSE WalkInterval(m, p, q, ivs[i][0], ivs[i][1])
       \o WalkIntervals(m, p, q, ivs, i + 1)

RECURSIVE WalkQ(_, _, _, _)
WalkQ(m, p, q, qhi) ==
  IF q >= qhi THEN << >>
  ELSE WalkIntervals(m, p, q, r_limits(m, p, q), 1) \o WalkQ(m, p, q + 1, qhi)

RECURSIVE WalkP(_, _, _)
WalkP(m, p, phi) ==
  IF p >= phi THEN << >>
  ELSE WalkQ(m, p, q_limits(m, p)[0], q_limits(m, p)[1]) \o WalkP(m, p + 1, phi)

\* the nested walk over p, q, the r intervals and r
RefWalk(m) == WalkP(m, m.p_lim[0], m.p_lim[1])

\* the first n values a generator returns when it is the only one used
RECURSIVE AloneRun(_, _, _)
AloneRun(st, m, n) ==
  IF n = 0 THEN << >>
  ELSE LET x == next(st, m)
       IN  << x.result >> \o AloneRun(x.st, m, n - 1)

\* s agrees with t wherever both are defined
Agree(s, t) == \A i \in 1..Min2(Len(s), Len(t)) : s[i] = t[i]

\* (a, b, c) before (d, e, f) in lexicographic order
LexLess(x, y) ==
  \/ x[0] < y[0]
  \/ x[0] = y[0] /\ x[1] < y[1]
  \/ x[0] = y[0] /\ x[1] = y[1] /\ x[2] < y[2]

\* the values of s before its first (0,0,0)
RECURSIVE FirstTraversal(_)
FirstTraversal(s) ==
  IF s = << >> \/ is_zero(Head(s)) THEN << >>
  ELSE << Head(s) >> \o FirstTraversal(Tail(s))

NoRepeat(s) == \A i, j \in 1..Len(s) : i < j => s[i] # s[j]

\* ------------------------------------------------------------------ claims
\* C1: once next() has returned the sentinel (0,0,0) for a generator, every
\* later call of next() on that generator returns (0,0,0) as well.
C1_SentinelForever ==
  \A g \in Gen : \A i, j \in 1..Len(out[g]) :
    (i < j /\ is_zero(out[g][i])) => is_zero(out[g][j])

\* C2: while two generators are live and their calls interleave, each one
\* returns exactly the values it returns when it is traversed alone.
C2_InstancesIndependent ==
  (\A g \in Gen : gen[g].live) =>
    \A g \in Gen :
      out[g] = AloneRun(StaticInit, gen[g].model_, Len(out[g]))

\* C3: a generator constructed while no other generator is live starts at
\* p = p_lim[0] of its own model and returns the reference walk of that
\* model, whatever an earlier generator left behind.
C3_FreshTraversal ==
  \A g \in Gen :
    (gen[g].live /\ solo[g]) =>
      Agree(out[g], RefWalk(gen[g].model_) \o << Zero >>)

\* C4: next() returns (0,0,0) only when the loops are exhausted, a return
\* inside the loops is never (0,0,0), and to_array() holds no (0,0,0).
C4_OriginNeverYielded ==
  /\ (last.called /\ is_zero(last.value)) =>
       (statics.state = "enter" /\ statics.p[0] >= statics.p[1])
  /\ statics.state = "yield" =>
       (last.called /\ ~ is_zero(last.value) /\ ~ is_zero(Cursor(statics)))
  /\ \A g \in Gen : \A k \in 1..Len(arr[g]) :
       \A i \in 1..Len(arr[g][k]) : ~ is_zero(arr[g][k][i])

\* the origin lies inside an r interval, is passed over, and the traversal
\* goes on with the index after it
C4_Witness ==
  \E g \in Gen :
    /\ gen[g].live
    /\ \E i \in 1..(Len(out[g]) - 1) :
         /\ out[g][i] = MatVec(gen[g].model_.permutation, Vec3(0, 0, -1))
         /\ out[g][i + 1] = MatVec(gen[g].model_.permutation, Vec3(0, 0, 1))
    /\ \E k \in 1..Len(arr[g]) : arr[g][k] # << >>

\* C5: a single generator traversed alone from its construction returns the
\* reference walk of its model, index by index, and then the sentinel.
C5_MatchesReferenceWalk ==
  gen[1].live =>
    LET w == RefWalk(gen[1].model_)
    IN  \A i \in 1..Len(out[1]) :
          /\ i <= Len(w) => out[1][i] = w[i]
          /\ i = Len(w) + 1 => is_zero(out[1][i])

\* a whole traversal of a model whose walk crosses two r intervals
C5_Witness ==
  /\ gen[1].live
  /\ Len(RefWalk(gen[1].model_)) >= 3
  /\ Len(out[1]) = Len(RefWalk(gen[1].model_)) + 1
  /\ is_zero(out[1][Len(out[1])])
  /\ \E p \in -2..2, q \in -2..2 : Len(r_limits(gen[1].model_, p, q)) = 2

\* C6: from one return inside the loops to the next, the cursor (p, q, r)
\* grows strictly in lexicographic order, across the two r intervals too,
\* and a generator that is alone returns no index twice in a traversal.
C6_StrictlyIncreasing ==
  [][ /\ (statics.state = "yield" /\ statics'.state = "yield"
            /\ statics' # statics)
        => LexLess(Cursor(statics), Cursor(statics'))
      /\ \A g \in Gen : solo'[g] => NoRepeat(FirstTraversal(out'[g])) ]_vars

\* the cursor stands in the second of two r intervals
C6_Witness ==
  /\ statics.state = "yield"
  /\ Len(statics.r) = 2
  /\ statics.ridx = 1
  /\ statics.r[1][0] = statics.r[1][1]
  /\ \E g \in Gen : gen[g].live /\ solo[g] /\ Len(out[g]) >= 2

\* C7: a traversal that has begun reaches its sentinel after finitely many
\* calls of next().
C7_TraversalEnds ==
  (statics.state = "yield") ~> (statics.state = "enter")

\* the only generator ever constructed has a non-empty walk and has
\* returned its sentinel
C7_Witness ==
  /\ made = 1
  /\ \E g \in Gen : gen[g].live /\ RefWalk(gen[g].model_) # << >>
  /\ last.called /\ is_zero(last.value)
  /\ statics.state = "enter"
  /\ Idle

\* 3 x 3 product, row-major
MatMul(a, b) ==
  [k \in 0..8 |-> a[3 * (k \div 3)] * b[k % 3]
                   + a[3 * (k \div 3) + 1] * b[3 + (k % 3)]
                   + a[3 * (k \div 3) + 2] * b[6 + (k % 3)]]

Det(a) ==
  a[0] * (a[4] * a[8] - a[5] * a[7])
  - a[1] * (a[3] * a[8] - a[5] * a[6])
  + a[2] * (a[3] * a[7] - a[4] * a[6])

Triples == { Vec3(x, y, z) : x \in -1..1, y \in -1..1, z \in -1..1 }

\* C8: for every UB, axis and source, ties included, permute_axes yields a
\* permutation of {0,1,2} and a 0/1 matrix M with one 1 in each row and
\* column, M M^T = I, det M = +-1, h[index[c]] = (p,q,r)[c] for h = M (p,q,r),
\* and M^T M (p,q,r) = (p,q,r).
C8_PermutationMatrix ==
  (arg.fn = "permute_axes" /\ ret.done) =>
    LET index == ret.value.index
        M == ret.value.permutation
    IN  /\ { index[c] : c \in 0..2 } = 0..2
        /\ \A k \in 0..8 : M[k] \in {0, 1}
        /\ \A i \in 0..2 : M[3 * i] + M[3 * i + 1] + M[3 * i + 2] = 1
        /\ \A j \in 0..2 : M[j] + M[3 + j] + M[6 + j] = 1
        /\ MatMul(M, Transpose(M)) = Arr(Identity)
        /\ Det(M) \in {1, -1}
        /\ \A t \in Triples :
             /\ \A c \in 0..2 : MatVec(M, t)[index[c]] = t[c]
             /\ MatVec(Transpose(M), MatVec(M, t)) = t

\* all three columns are equally close to the source and both candidates
\* equally close to the axis: the first maxima are taken
C8_Witness ==
  /\ arg.fn = "permute_axes" /\ ret.done
  /\ arg.ub = Arr(Identity)
  /\ arg.source = Vec3(1, 1, 1)
  /\ arg.axis = Vec3(0, 1, 1)
  /\ ret.value.index = Vec3(0, 2, 1)

\* C9: r_limits returns at most two intervals, and two are ascending and
\* disjoint: result[0].lower <= result[1].lower and
\* result[0].upper <= result[1].lower.
C9_AscendingDisjoint ==
  (arg.fn = "r_limits" /\ ret.done) =>
    /\ Len(ret.value) <= 2
    /\ Len(ret.value) = 2 =>
         /\ ret.value[1][0] <= ret.value[2][0]
         /\ ret.value[1][1] <= ret.value[2][0]

\* the two Ewald intervals overlapped after clipping and the second was
\* truncated
C9_Witness ==
  /\ arg.fn = "r_limits" /\ ret.done
  /\ Len(ret.value) = 2
  /\ ret.value[2][0] = ret.value[1][1]
  /\ LET cq == ConstantWithQ(arg.model_, arg.p)
         clipped == ClipLoop(resolution_r_limits(arg.model_, arg.p, arg.q, cq)[1],
                             ewald_sphere_r_limits(arg.model_, arg.p, arg.q, cq),
                             1, << >>)
     IN  clipped # ret.value

\* C10 as stated: every interval r_limits returns has lower < upper, the
\* truncated second one too.
C10_AllNonEmpty ==
  (arg.fn = "r_limits" /\ ret.done) =>
    \A i \in 1..Len(ret.value) : ret.value[i][0] < ret.value[i][1]

\* C10 amended: a sole interval and the first of two have lower < upper;
\* the second of two has lower < upper unless it was truncated, and then
\* its lower end is the upper end of the first and it may be empty.
C10_NonEmptyUnlessTruncated ==
  (arg.fn = "r_limits" /\ ret.done) =>
    /\ Len(ret.value) >= 1 => ret.value[1][0] < ret.value[1][1]
    /\ Len(ret.value) = 2 =>
         \/ ret.value[2][0] < ret.value[2][1]
         \/ ret.value[2][0] = ret.value[1][1]

\* the truncation left the second interval empty
C10_Witness ==
  /\ arg.fn = "r_limits" /\ ret.done
  /\ Len(ret.value) = 2
  /\ ret.value[1][0] < ret.value[1][1]
  /\ ret.value[2][0] = ret.value[1][1]
  /\ ret.value[2][0] >= ret.value[2][1]

\* a closed integer range lo..hi holds x
InClosed(x, range) == range[0] <= x /\ x <= range[1]

\* C11: when the Ewald and the resolution q-root sets are both non-empty at
\* p, the integers q admitted by q_limits(p) are exactly those lying in both
\* margin-widened ranges; disjoint ranges admit no q.
C11_OverlapOfRanges ==
  (ret.done /\ arg.fn = "q_limits"
     /\ resolution_q_limits(arg.model_, arg.p) # None
     /\ ewald_sphere_q_limits(arg.model_, arg.p) # None)
  => ((ret.value[0] <= arg.q /\ arg.q < ret.value[1])
      <=> (InClosed(arg.q, ewald_sphere_q_limits(arg.model_, arg.p)[1])
           /\ InClosed(arg.q, resolution_q_limits(arg.model_, arg.p)[1])))

\* the resolution q-quadratic and one of the Ewald q-quadratics have a root
HasQRoots(m, p) ==
  resolution_q_limits(m, p) # None /\ ewald_sphere_q_limits(m, p) # None

\* the resolution r-quadratic and one of the Ewald r-quadratics have a root
HasRRoots(m, p, q) ==
  /\ resolution_r_limits(m, p, q, ConstantWithQ(m, p)) # None
  /\ ewald_sphere_r_limits(m, p, q, ConstantWithQ(m, p)) # << >>

\* the loop indices (p, q, r) of a returned index h
LoopIndex(m, h) == MatVec(Transpose(m.permutation), h)

\* every index returned to the holder of g has roots at its p and (p, q)
EmittedWithRoots(g) ==
  \A i \in 1..Len(out[g]) :
    is_zero(out[g][i])
    \/ (/\ HasQRoots(gen[g].model_, LoopIndex(gen[g].model_, out[g][i])[0])
        /\ HasRRoots(gen[g].model_, LoopIndex(gen[g].model_, out[g][i])[0],
                     LoopIndex(gen[g].model_, out[g][i])[1]))

\* without roots q_limits returns (0,0) and r_limits returns no interval
NoRootsNoRange(m) ==
  \A p \in -PQBound..PQBound :
    /\ ~ HasQRoots(m, p) => q_limits(m, p) = Vec2(0, 0)
    /\ \A q \in -PQBound..PQBound :
         ~ HasRRoots(m, p, q) => r_limits(m, p, q) = << >>

\* C12: a quadratic without real roots is a silent, local no-solution:
\* q_limits(p) returns (0,0), r_limits(p,q) returns no interval, no index
\* with that p or (p,q) is returned, and the traversal goes on.
C12_NoRootsNoIndex ==
  \A g \in Gen :
    gen[g].live => (NoRootsNoRange(gen[g].model_) /\ EmittedWithRoots(g))

\* the four limits selected by compute_p_limits from its result
SelectedOf(v, source) ==
  SelectLimits(SignOf(Dot(PlaneNormal(
                 permute_matrix(arg.ub_beg, arg.ub_end, arg.axis,
                                arg.source).rlv_end), source)),
               [beg |-> v.ewald_p_lim_beg, end |-> v.ewald_p_lim_end],
               [beg |-> v.res_p_lim_beg, end |-> v.res_p_lim_end])

\* floor of a real
Floor(x) == x \div Scale

\* n is x rounded toward zero
TowardZeroOf(n, x) ==
  /\ x >= 0 => (n * Scale <= x /\ x < (n + 1) * Scale)
  /\ x < 0 => ((n - 1) * Scale < x /\ x <= n * Scale)

\* C13: p_lim = [floor(min) - margin, floor(max) + margin + 1) of the four
\* selected limits, for negative non-integer limits too, and
\* p_lim[0] <= p_lim[1].
C13_FloorOfLimits ==
  (arg.fn = "compute_p_limits" /\ ret.done) =>
    /\ ret.value.p_lim[0]
         = Floor(SeqMin(SelectedOf(ret.value, arg.source))) - arg.margin
    /\ ret.value.p_lim[1]
         = Floor(SeqMax(SelectedOf(ret.value, arg.source))) + arg.margin + 1
    /\ ret.value.p_lim[0] <= ret.value.p_lim[1]

\* C13 as it holds: the limits are converted by (int), which rounds toward
\* zero: p_lim = [trunc(min) - margin, trunc(max) + margin + 1), and
\* p_lim[0] <= p_lim[1].
C13_TruncationOfLimits ==
  (arg.fn = "compute_p_limits" /\ ret.done) =>
    /\ TowardZeroOf(ret.value.p_lim[0] + arg.margin,
                    SeqMin(SelectedOf(ret.value, arg.source)))
    /\ TowardZeroOf(ret.value.p_lim[1] - arg.margin - 1,
                    SeqMax(SelectedOf(ret.value, arg.source)))
    /\ ret.value.p_lim[0] <= ret.value.p_lim[1]

\* the smallest selected limit, 1 - sqrt(2), is negative and not an integer
C13_Witness ==
  /\ arg.fn = "compute_p_limits" /\ ret.done
  /\ arg.ub_end = Arr(Identity) /\ arg.source = Vec3(0, 1, 1)
  /\ arg.dstarmax = 1 /\ arg.margin = 0
  /\ SeqMin(SelectedOf(ret.value, arg.source)) < 0
  /\ SeqMin(SelectedOf(ret.value, arg.source)) > - Scale
  /\ SeqMax(SelectedOf(ret.value, arg.source)) > 0
  /\ ret.value.p_lim = Vec2(0, 1)

\* squared length of the reciprocal lattice vector of h in the setting ub
LengthSq(ub, h) == Dot(MatVec(ub, h), MatVec(ub, h))

\* no non-zero lattice point of the setting c lies within d*max of the origin
EmptyShell(c) ==
  \A h \in Triples \ {Zero} :
    /\ LengthSq(c.ub_beg, h) > c.dstarmax * c.dstarmax
    /\ LengthSq(c.ub_end, h) > c.dstarmax * c.dstarmax

\* the models of the empty shells, for every margin
EmptyShellModels ==
  { Build(c) : c \in { d \in ShellConfigs : EmptyShell(d) } }

\* the models of the empty shells constructed with margin 0
EmptyShellModelsNoMargin ==
  { Build(c) : c \in { d \in ShellConfigs : EmptyShell(d) /\ d.margin = 0 } }

\* C14: a generator of an empty resolution shell returns no real index for
\* any margin >= 0: its next() returns the sentinel and to_array() is empty.
C14_EmptyShellSilent ==
  \A g \in Gen :
    (gen[g].live /\ gen[g].model_ \in EmptyShellModels) =>
      /\ \A i \in 1..Len(out[g]) : is_zero(out[g][i])
      /\ \A k \in 1..Len(arr[g]) : arr[g][k] = << >>

\* C14 as it holds: with margin 0, every traversal begun on a generator of
\* an empty shell ends at once: the call returns (0,0,0), and a to_array()
\* that begins a traversal is empty.
C14_EmptyShellTraversal ==
  [][\A g \in Gen :
       (/\ gen[g].live /\ gen'[g].live
        /\ gen[g].model_ \in EmptyShellModelsNoMargin
        /\ statics.state = "enter"
        /\ out'[g] # out[g])
       => (/\ out'[g] = Append(out[g], Zero)
           /\ statics'.state = "enter"
           /\ arr'[g] # arr[g] => arr'[g] = << << >> >>)]_vars

\* next() and then to_array() on a generator of an empty shell, margin 0,
\* each beginning a traversal
C14_Witness ==
  \E g \in Gen :
    /\ gen[g].live
    /\ gen[g].model_ \in EmptyShellModelsNoMargin
    /\ out[g] = << Zero, Zero >>
    /\ arr[g] = << << >> >>

\* the settings of SphereConfigs with the models constructed from them
SphereModels == { [c |-> c, model_ |-> Build(c)] : c \in SphereConfigs }

\* h lies within d*max (+ one unit of the number model) of the origin in the
\* setting (1 - t) ub_beg + t ub_end for some t in [0, 1]: the minimum over
\* t of | v0 + t dv |^2, with v0 = ub_beg h and dv = ub_end h - ub_beg h
WithinSphereAt(a, b, e, limit) ==
  IF e = 0 \/ b >= 0 THEN a * Scale * Scale <= limit
  ELSE IF b + e <= 0 THEN (a + 2 * b + e) * Scale * Scale <= limit
  ELSE (a * e - b * b) * Scale * Scale <= limit * e

WithinSphereOf(v0, dv, dstarmax) ==
  WithinSphereAt(Dot(v0, v0), Dot(v0, dv), Dot(dv, dv),
                 (dstarmax * Scale + 1) * (dstarmax * Scale + 1))

WithinSphere(c, h) ==
  WithinSphereOf(MatVec(c.ub_beg, h),
                 [i \in 0..2 |-> MatVec(c.ub_end, h)[i] - MatVec(c.ub_beg, h)[i]],
                 c.dstarmax)

\* an index at most k index units from h lies within the sphere
NearSphere(c, h, k) ==
  \E x \in -k..k, y \in -k..k, z \in -k..k :
    WithinSphere(c, Vec3(h[0] + x, h[1] + y, h[2] + z))

\* the real roots of the resolution r-quadratic at the (p, q) of pqr
ResolutionRoots(m, pqr) ==
  solve_quad(m.cp[0], ConstantWithQ(m, pqr[0])[0] + pqr[1] * m.cp[11],
             ConstantWithQ(m, pqr[0])[1] + pqr[1] * pqr[1] * m.cp[13]
               + pqr[1] * ConstantWithQ(m, pqr[0])[2] - m.dstarmax2)

\* r lies less than k index units outside the roots
NearRoots(roots, r, k) ==
  /\ roots # << >>
  /\ SeqMin(roots) - k * Scale < r * Scale
  /\ r * Scale < SeqMax(roots) + k * Scale

\* C15: every index returned lies within the resolution sphere for some
\* setting between the beginning and the end, up to margin index units.
C15_WithinSphere ==
  \A s \in SphereModels :
    (gen[1].live /\ gen[1].model_ = s.model_) =>
      \A i \in 1..Len(out[1]) :
        is_zero(out[1][i]) \/ NearSphere(s.c, out[1][i], s.c.margin)

\* C15 as it holds: the limits are converted by (int), toward zero, so an
\* index returned by a generator traversed alone lies less than margin + 1
\* index units along r from the resolution sphere of the beginning setting.
C15_WithinSphereByTruncation ==
  gen[1].live =>
    \A i \in 1..Len(out[1]) :
      is_zero(out[1][i])
      \/ NearRoots(ResolutionRoots(gen[1].model_,
                                   LoopIndex(gen[1].model_, out[1][i])),
                   LoopIndex(gen[1].model_, out[1][i])[2],
                   gen[1].model_.margin + 1)

\* with margin 0 the index (-1, 2, 0) is returned: its vector has length
\* sqrt(5) > 2 in every setting, r = 0 lies above the roots -1.71, -0.29
C15_Witness ==
  /\ gen[1].live
  /\ gen[1].model_.margin = 0
  /\ \E i \in 1..Len(out[1]) :
       /\ out[1][i] = Vec3(-1, 2, 0)
       /\ LoopIndex(gen[1].model_, out[1][i]) = Vec3(-1, 2, 0)
       /\ SeqMax(ResolutionRoots(gen[1].model_, Vec3(-1, 2, 0))) < 0
       /\ \A s \in SphereModels :
            s.model_ = gen[1].model_ => ~ WithinSphere(s.c, out[1][i])

\* ================================================== reflection predictors
\* Angles are counted in quarter turns: two_pi is 4.
two_pi == 4

\* af::Predicted, the only flag the predictors write; flags are sets of bits
Predicted == "Predicted"

\* a ray of the ray predictor
Ray(entering, angle, s1) == [entering |-> entering, angle |-> angle, s1 |-> s1]

RayIn == Ray(TRUE, 1, Vec3(1, 0, 1))

RayOut == Ray(FALSE, 3, Vec3(-1, 0, 1))

\* what predict_rays_(h, ub) can return for one index: no ray, one, or two
RayLists ==
  { << >>, << RayIn >>, << RayOut >>, << RayIn, RayOut >>, << RayOut, RayIn >> }

\* the Miller indices asked for
Indices == { Vec3(1, 0, 0), Vec3(0, 1, 0) }

Panels == {0, 1}

\* the (panel, s1) pairs at which a ray can meet a panel
Impacts ==
  { << 0, RayIn.s1 >>, << 0, RayOut.s1 >>, << 1, RayOut.s1 >> }

\* scans: oscillation range [osc0, osc0 + images * width], width 1 per image
Scan(osc0, images) == [osc0 |-> osc0, images |-> images]

Scans == { Scan(0, 4), Scan(0, 8), Scan(3, 3), Scan(2, 1) }

\* the models a predictor keeps a reference to: the rays of the first index
\* (the second has both rays), the impacts on the detector and the scan
Worlds ==
  { [rays |-> rays, hits |-> hits, scan |-> scan] :
      rays \in RayLists, hits \in SUBSET Impacts, scan \in Scans }

\* predict_rays_(h, ub)
predict_rays(w, h) ==
  IF h = Vec3(1, 0, 0) THEN w.rays ELSE << RayIn, RayOut >>

\* detector_[panel].get_ray_intersection(s1) returns, or throws dxtbx::error
Intersects(w, panel, s1) == << panel, s1 >> \in w.hits

\* the mm coordinates of the impact of s1 on the panel
get_ray_intersection(panel, s1) == Vec2(s1[0] + 2, panel + 1)

\* detector_[panel].millimeter_to_pixel(mm): pixels of half a millimetre
millimeter_to_pixel(mm) == Vec2(2 * mm[0], 2 * mm[1])

\* scan_.get_array_index_from_angle(angle)
get_array_index_from_angle(scan, angle) == angle - scan.osc0

\* the columns of a reflection table
EmptyTable ==
  [miller_index |-> << >>, entering |-> << >>, panel |-> << >>,
   s1 |-> << >>, xyzcal_mm |-> << >>, xyzcal_px |-> << >>, flags |-> << >>]

\* push_back on s1, xyzcal.mm and xyzcal.px, none on flags
PushPredictionNoFlags(p, s1, xyz_mm, xyz_px, flags) ==
  [p EXCEPT !.s1 = Append(@, s1), !.xyzcal_mm = Append(@, xyz_mm),
            !.xyzcal_px = Append(@, xyz_px)]

\* push_back on s1, xyzcal.mm, xyzcal.px and flags
PushPrediction(p, s1, xyz_mm, xyz_px, flags) ==
  [p EXCEPT !.s1 = Append(@, s1), !.xyzcal_mm = Append(@, xyz_mm),
            !.xyzcal_px = Append(@, xyz_px), !.flags = Append(@, flags)]

\* push_back on hkl, enter and panel
PushRequest(p, h, entering, panel) ==
  [p EXCEPT !.miller_index = Append(@, h), !.entering = Append(@, entering),
            !.panel = Append(@, panel)]

\* a try block that leaves no angle and no frame in the row of a miss
PushImpactZeroed(p, w, ray, panel, mm, frame) ==
  IF Intersects(w, panel, ray.s1)
    THEN PushPrediction(p, ray.s1, Vec3(mm[0], mm[1], ray.angle),
                        Vec3(millimeter_to_pixel(mm)[0],
                             millimeter_to_pixel(mm)[1], frame),
                        {Predicted})
    ELSE PushPrediction(p, ray.s1, Zero, Zero, {})

\* the try block of append_for_index(p, ub, h, entering, panel)
PushImpact(p, w, ray, panel, mm, frame) ==
  IF Intersects(w, panel, ray.s1)
    THEN PushPrediction(p, ray.s1, Vec3(mm[0], mm[1], ray.angle),
                        Vec3(millimeter_to_pixel(mm)[0],
                             millimeter_to_pixel(mm)[1], frame),
                        {Predicted})
    ELSE PushPrediction(p, ray.s1, Vec3(0, 0, ray.angle),
                        Vec3(0, 0, frame), {})

\* a loop over the rays that appends nothing when no ray has the flag
RECURSIVE MatchRayOrNothing(_, _, _, _, _, _)
MatchRayOrNothing(p, w, rays, i, entering, panel) ==
  IF i > Len(rays)
    THEN p
  ELSE IF rays[i].entering = entering
    THEN PushImpact(p, w, rays[i], panel,
                    get_ray_intersection(panel, rays[i].s1),
                    get_array_index_from_angle(w.scan, rays[i].angle))
  ELSE MatchRayOrNothing(p, w, rays, i + 1, entering, panel)

\* the loop over the rays: the first ray with the requested flag is used
RECURSIVE MatchRay(_, _, _, _, _, _)
MatchRay(p, w, rays, i, entering, panel) ==
  IF i > Len(rays)
    THEN PushPrediction(p, Zero, Zero, Zero, {})
  ELSE IF rays[i].entering = entering
    THEN PushImpact(p, w, rays[i], panel,
                    get_ray_intersection(panel, rays[i].s1),
                    get_array_index_from_angle(w.scan, rays[i].angle))
  ELSE MatchRay(p, w, rays, i + 1, entering, panel)

\* append_for_index(p, ub, h, entering, panel)
append_for_index_entering(p, w, h, entering, panel) ==
  MatchRay(PushRequest(p, h, entering, panel), w, predict_rays(w, h), 1,
           entering, panel)

\* the outcome of a driver: a DIALS_ASSERT that failed, or the table
Raised == [error |-> TRUE]

Table(table) == [error |-> FALSE, table |-> table]

\* table.nrows()
nrows(table) == Len(table.miller_index)

\* the loop of for_hkl_with_individual_ub over the requests
RECURSIVE AppendEachEntering(_, _, _, _, _, _)
AppendEachEntering(p, w, h, entering, panel, i) ==
  IF i > Len(h) THEN p
  ELSE AppendEachEntering(
         append_for_index_entering(p, w, h[i], entering[i], panel[i]),
         w, h, entering, panel, i + 1)

\* DIALS_ASSERT(table.nrows() == h.size()); return table
ReturnedIfRows(table, n) == IF nrows(table) = n THEN Table(table) ELSE Raised

\* for_hkl_with_individual_ub(h, entering, panel, ub); the oscillation width
\* of every scan of the model is positive
for_hkl_with_individual_ub(w, h, entering, panel, ub) ==
  IF Len(ub) # Len(h) \/ Len(ub) # Len(panel) \/ Len(ub) # Len(entering)
    THEN Raised
    ELSE ReturnedIfRows(AppendEachEntering(EmptyTable, w, h, entering, panel, 1),
                        Len(h))

\* af::shared< mat3<double> > uba(n, ub)
Copies(n, ub) == [i \in 1..n |-> ub]

\* for_hkl(h, entering, panel, ub)
for_hkl(w, h, entering, panel, ub) ==
  for_hkl_with_individual_ub(w, h, entering, panel, Copies(Len(h), ub))

\* ------------------------------------------------- for_hkl under study
\* most rows of a request or of a table
MaxRows == 2

\* a request: an index, the entering flag and the panel asked for
Requests ==
  { [h |-> h, entering |-> e, panel |-> n] :
      h \in Indices, e \in BOOLEAN, n \in Panels }

RequestLists == UNION { [1..n -> Requests] : n \in 0..MaxRows }

Column(rows, field) == [i \in 1..Len(rows) |-> rows[i][field]]

InitHkl ==
  /\ NoGenerators
  /\ \E w \in Worlds, rows \in RequestLists :
       \/ arg = [fn |-> "for_hkl", predictor |-> w, h |-> Column(rows, "h"),
                 entering |-> Column(rows, "entering"),
                 panel |-> Column(rows, "panel"), ub |-> "ub"]
       \/ \E n \in 0..MaxRows :
            arg = [fn |-> "for_hkl_with_individual_ub", predictor |-> w,
                   h |-> Column(rows, "h"),
                   entering |-> Column(rows, "entering"),
                   panel |-> Column(rows, "panel"), ub |-> Copies(n, "ub")]
  /\ ret = NoRet

\* predictor.for_hkl(h, entering, panel, ub)
ApplyForHkl ==
  /\ arg.fn = "for_hkl"
  /\ ~ ret.done
  /\ ret' = [done |-> TRUE,
             value |-> for_hkl(arg.predictor, arg.h, arg.entering, arg.panel,
                               arg.ub)]
  /\ UNCHANGED << statics, gen, made, out, arr, solo, last, arg >>

\* predictor.for_hkl_with_individual_ub(h, entering, panel, ub)
ApplyForHklWithIndividualUb ==
  /\ arg.fn = "for_hkl_with_individual_ub"
  /\ ~ ret.done
  /\ ret' = [done |-> TRUE,
             value |-> for_hkl_with_individual_ub(arg.predictor, arg.h,
                         arg.entering, arg.panel, arg.ub)]
  /\ UNCHANGED << statics, gen, made, out, arr, solo, last, arg >>

HklNext == ApplyForHkl \/ ApplyForHklWithIndividualUb

SpecHkl == InitHkl /\ [][HklNext]_vars

\* ---------------------------------------------------------------- C16
ForHklCall == arg.fn \in {"for_hkl", "for_hkl_with_individual_ub"}

\* the arrays of the request have one size
SizesAgree ==
  arg.fn = "for_hkl_with_individual_ub" => Len(arg.ub) = Len(arg.h)

ColumnNames ==
  {"miller_index", "entering", "panel", "s1", "xyzcal_mm", "xyzcal_px",
   "flags"}

\* the requested ray of row i exists
HasRequestedRay(i) ==
  \E j \in 1..Len(predict_rays(arg.predictor, arg.h[i])) :
    predict_rays(arg.predictor, arg.h[i])[j].entering = arg.entering[i]

RequestedRay(i) ==
  predict_rays(arg.predictor, arg.h[i])[
    CHOOSE j \in 1..Len(predict_rays(arg.predictor, arg.h[i])) :
      /\ predict_rays(arg.predictor, arg.h[i])[j].entering = arg.entering[i]
      /\ \A k \in 1..(j - 1) :
           predict_rays(arg.predictor, arg.h[i])[k].entering # arg.entering[i]]

\* the requested ray of row i exists and does not meet the requested panel
RequestedRayMisses(i) ==
  /\ HasRequestedRay(i)
  /\ ~ Intersects(arg.predictor, arg.panel[i], RequestedRay(i).s1)

RequestedRayHits(i) ==
  /\ HasRequestedRay(i)
  /\ Intersects(arg.predictor, arg.panel[i], RequestedRay(i).s1)

ForHklReturned == ForHklCall /\ ret.done /\ ~ ret.value.error

\* C17 as stated: the row of a requested ray that misses the requested panel
\* has xyzcal.mm = xyzcal.px = (0, 0, 0) and Predicted unset, and Predicted
\* is set exactly on the rows the requested ray of which exists and hits.
C17_ZeroCoordinates ==
  ForHklReturned =>
    \A i \in 1..Len(arg.h) :
      /\ RequestedRayMisses(i) =>
           /\ ret.value.table.xyzcal_mm[i] = Zero
           /\ ret.value.table.xyzcal_px[i] = Zero
           /\ Predicted \notin ret.value.table.flags[i]
      /\ Predicted \in ret.value.table.flags[i] <=> RequestedRayHits(i)

\* C17 amended: on a miss only x and y are zero; the third component of
\* xyzcal.mm is the angle of the ray, that of xyzcal.px its array index, and
\* s1 is that of the ray. A row without a requested ray is zero throughout.
\* Predicted is set exactly when the requested ray exists and hits.
C17_ZeroPositionOnMiss ==
  ForHklReturned =>
    \A i \in 1..Len(arg.h) :
      /\ RequestedRayMisses(i) =>
           /\ ret.value.table.s1[i] = RequestedRay(i).s1
           /\ ret.value.table.xyzcal_mm[i] = Vec3(0, 0, RequestedRay(i).angle)
           /\ ret.value.table.xyzcal_px[i] =
                Vec3(0, 0, get_array_index_from_angle(arg.predictor.scan,
                                                      RequestedRay(i).angle))
           /\ Predicted \notin ret.value.table.flags[i]
      /\ ~ HasRequestedRay(i) =>
           /\ ret.value.table.s1[i] = Zero
           /\ ret.value.table.xyzcal_mm[i] = Zero
           /\ ret.value.table.xyzcal_px[i] = Zero
      /\ Predicted \in ret.value.table.flags[i] <=> RequestedRayHits(i)

\* a requested ray missed its panel and left its angle and its frame
C17_Witness ==
  /\ ForHklReturned
  /\ \E i \in 1..Len(arg.h) :
       /\ RequestedRayMisses(i)
       /\ ret.value.table.xyzcal_mm[i][2] # 0
       /\ ret.value.table.xyzcal_px[i][2] # 0
       /\ ret.value.table.flags[i] = {}

\* ------------------------------------------------------------ for_ub
\* the turns by which an angle in [0, two_pi) can be moved into a scan
Turns == 0..2

\* the angles angle + k two_pi within the oscillation range, ascending
AnglesInRange(scan, angle) ==
  { angle + k * two_pi : k \in Turns } \cap (scan.osc0 .. (scan.osc0 + scan.images))

\* is_angle_in_range(phi_range, angle)
is_angle_in_range(scan, angle) == AnglesInRange(scan, angle) # {}

LeastOf(S) == CHOOSE x \in S : \A y \in S : x <= y

RECURSIVE AscendingSeq(_)
AscendingSeq(S) ==
  IF S = {} THEN << >>
  ELSE << LeastOf(S) >> \o AscendingSeq(S \ {LeastOf(S)})

\* scan_.get_array_indices_with_angle(angle): (angle, array index) of each
\* visit of the angle
get_array_indices_with_angle(scan, angle) ==
  [j \in 1..Cardinality(AnglesInRange(scan, angle)) |->
     Vec2(AscendingSeq(AnglesInRange(scan, angle))[j],
          get_array_index_from_angle(scan,
            AscendingSeq(AnglesInRange(scan, angle))[j]))]

\* detector_.get_ray_intersection(s1) returns an impact, or throws
IntersectsDetector(w, s1) == \E panel \in Panels : Intersects(w, panel, s1)

\* the panel of the impact found by the detector
ImpactPanel(w, s1) ==
  CHOOSE panel \in Panels :
    /\ Intersects(w, panel, s1)
    /\ \A other \in Panels : Intersects(w, other, s1) => panel <= other

\* the loop over the frames of one ray
RECURSIVE PushFrames(_, _, _, _, _, _, _)
PushFrames(p, h, ray, panel, mm, frames, j) ==
  IF j > Len(frames) THEN p
  ELSE PushFrames(
         PushPrediction(PushRequest(p, h, ray.entering, panel), ray.s1,
                        Vec3(mm[0], mm[1], frames[j][0]),
                        Vec3(millimeter_to_pixel(mm)[0],
                             millimeter_to_pixel(mm)[1], frames[j][1]),
                        {Predicted}),
         h, ray, panel, mm, frames, j + 1)

\* the body of the loop over the rays of append_for_index(p, ub, h)
PushRay(p, w, h, ray) ==
  IF ~ is_angle_in_range(w.scan, ray.angle) THEN p
  ELSE IF ~ IntersectsDetector(w, ray.s1) THEN p
  ELSE PushFrames(p, h, ray, ImpactPanel(w, ray.s1),
                  get_ray_intersection(ImpactPanel(w, ray.s1), ray.s1),
                  get_array_indices_with_angle(w.scan, ray.angle), 1)

RECURSIVE PushRays(_, _, _, _, _)
PushRays(p, w, h, rays, i) ==
  IF i > Len(rays) THEN p
  ELSE PushRays(PushRay(p, w, h, rays[i]), w, h, rays, i + 1)

\* append_for_index(p, ub, h)
append_for_index(p, w, h) == PushRays(p, w, h, predict_rays(w, h), 1)

\* the indices IndexGenerator yields before the zero index
ShellIndices == << Vec3(1, 0, 0), Vec3(0, 1, 0) >>

RECURSIVE AppendEachIndex(_, _, _, _)
AppendEachIndex(p, w, indices, i) ==
  IF i > Len(indices) THEN p
  ELSE AppendEachIndex(append_for_index(p, w, indices[i]), w, indices, i + 1)

\* for_ub(ub)
for_ub(w, ub) == AppendEachIndex(EmptyTable, w, ShellIndices, 1)

\* ------------------------------------- for_ub and for_hkl under study
InitUb ==
  /\ NoGenerators
  /\ \E w \in Worlds : arg = [fn |-> "for_ub", predictor |-> w, ub |-> "ub"]
  /\ ret = NoRet

\* predictor.for_ub(ub)
ApplyForUb ==
  /\ arg.fn = "for_ub"
  /\ ~ ret.done
  /\ ret' = [done |-> TRUE, value |-> for_ub(arg.predictor, arg.ub)]
  /\ UNCHANGED << statics, gen, made, out, arr, solo, last, arg >>

\* the caller takes h, entering and panel of the rows of for_ub as the
\* request of for_hkl, with the same predictor and the same ub
RequestRows ==
  /\ arg.fn = "for_ub"
  /\ ret.done
  /\ arg' = [fn |-> "for_hkl", predictor |-> arg.predictor,
             h |-> ret.value.miller_index, entering |-> ret.value.entering,
             panel |-> ret.value.panel, ub |-> arg.ub, rows |-> ret.value]
  /\ ret' = NoRet
  /\ UNCHANGED << statics, gen, made, out, arr, solo, last >>

UbNext == ApplyForUb \/ RequestRows \/ ApplyForHkl

SpecUb == InitUb /\ [][UbNext]_vars

\* ---------------------------------------------------------------- C18
\* for_hkl has answered a request made of the rows of for_ub
RowsCompared == arg.fn = "for_hkl" /\ "rows" \in DOMAIN arg /\ ret.done

ComparedColumns == {"s1", "xyzcal_mm", "xyzcal_px", "entering", "panel"}

\* C18: for_hkl, asked for the h, entering and panel of the rows of for_ub
\* with the same ub, returns rows that agree with those of for_ub on s1,
\* xyzcal.mm, xyzcal.px, entering and panel, for every scan.
C18_DriversAgree ==
  RowsCompared =>
    /\ ~ ret.value.error
    /\ \A c \in ComparedColumns : ret.value.table[c] = arg.rows[c]

\* ------------------------------------------- for_reflection_table
\* a second flag bit, one the predictors do not write
Indexed == "Indexed"

\* the table is updated in place: the same assertions and the same loops
\* serve the scan-static and the stills predictor, which differ in the
\* prediction and in the columns copied
MergeFlags(flags, new_flags) ==
  [i \in 1..Len(flags) |-> (flags[i] \ {Predicted}) \cup new_flags[i]]

\* the assignments of the columns of new_table and the loop over the flags
UpdatedFrom(table, new_table) ==
  [table EXCEPT !.miller_index = new_table.miller_index,
                !.entering = new_table.entering,
                !.panel = new_table.panel,
                !.s1 = new_table.s1,
                !.xyzcal_px = new_table.xyzcal_px,
                !.xyzcal_mm = new_table.xyzcal_mm,
                !.flags = MergeFlags(table.flags, new_table.flags)]

\* DIALS_ASSERT(new_table.nrows() == table.nrows()) and what follows it
UpdateIfRows(table, predicted) ==
  IF predicted.error \/ nrows(predicted.table) # nrows(table)
    THEN [error |-> TRUE, table |-> table]
    ELSE [error |-> FALSE, table |-> UpdatedFrom(table, predicted.table)]

\* for_reflection_table_with_individual_ub(table, ub): the table as the
\* call leaves it, and whether the call raised
for_reflection_table_with_individual_ub(w, table, ub) ==
  IF Len(ub) # nrows(table)
    THEN [error |-> TRUE, table |-> table]
    ELSE UpdateIfRows(table,
           for_hkl_with_individual_ub(w, table.miller_index, table.entering,
                                      table.panel, ub))

\* for_reflection_table(table, ub)
for_reflection_table(w, table, ub) ==
  for_reflection_table_with_individual_ub(w, table, Copies(nrows(table), ub))

\* ------------------------------------------------- stills predictor
\* the one ray the stills ray predictor returns for an index
StillsRays == { Ray(FALSE, 0, RayIn.s1), Ray(FALSE, 0, RayOut.s1) }

\* values of predict_ray_.get_delpsi(), in milliradians
DelPsis == {0, 1}

\* the models of a stills predictor: ray and delpsi of the first index,
\* and the impacts on the detector
StillsWorlds ==
  { [ray |-> ray, delpsi |-> delpsi, hits |-> hits] :
      ray \in StillsRays, delpsi \in DelPsis, hits \in SUBSET Impacts }

\* predict_ray_(h, ub)
predict_ray(w, h) ==
  IF h = Vec3(1, 0, 0) THEN w.ray ELSE Ray(FALSE, 0, RayOut.s1)

\* predict_ray_.get_delpsi()
get_delpsi(w, h) == IF h = Vec3(1, 0, 0) THEN w.delpsi ELSE 1

EmptyStillsTable ==
  [miller_index |-> << >>, entering |-> << >>, panel |-> << >>,
   s1 |-> << >>, xyzcal_mm |-> << >>, xyzcal_px |-> << >>, flags |-> << >>,
   delpsical_rad |-> << >>]

\* get_ray_intersection(s1, panel) returns, or throws dxtbx::error;
\* a negative panel asks the whole detector
StillsIntersects(w, s1, panel) ==
  IF panel < 0 THEN IntersectsDetector(w, s1) ELSE Intersects(w, panel, s1)

\* impact.first
StillsImpactPanel(w, s1, panel) ==
  IF panel < 0 THEN ImpactPanel(w, s1) ELSE panel

\* the pushes of append_for_ray
PushStill(p, h, ray, panel, mm, delpsi) ==
  [PushPrediction(PushRequest(p, h, ray.entering, panel), ray.s1,
                  Vec3(mm[0], mm[1], 0),
                  Vec3(millimeter_to_pixel(mm)[0],
                       millimeter_to_pixel(mm)[1], 0),
                  {Predicted})
     EXCEPT !.delpsical_rad = Append(@, delpsi)]

\* append_for_ray(p, h, ray, panel, delpsi)
append_for_ray(p, w, h, ray, panel, delpsi) ==
  IF StillsIntersects(w, ray.s1, panel)
    THEN PushStill(p, h, ray, StillsImpactPanel(w, ray.s1, panel),
                   get_ray_intersection(StillsImpactPanel(w, ray.s1, panel),
                                        ray.s1),
                   delpsi)
    ELSE p

\* append_for_index(p, ub, h, panel) of the stills predictor
stills_append_for_index(p, w, h, panel) ==
  append_for_ray(p, w, h, predict_ray(w, h), panel, get_delpsi(w, h))

RECURSIVE AppendEachStill(_, _, _, _, _)
AppendEachStill(p, w, h, panel, i) ==
  IF i > Len(h) THEN p
  ELSE AppendEachStill(stills_append_for_index(p, w, h[i], panel[i]),
                       w, h, panel, i + 1)

\* operator()(h): no panel is given, append_for_index takes panel = -1
stills_for_indices(w, h) ==
  Table(AppendEachStill(EmptyStillsTable, w, h, Copies(Len(h), -1), 1))

\* operator()(h, panels)
stills_for_indices_on_panels(w, h, panel) ==
  IF Len(h) # Len(panel) THEN Raised
  ELSE Table(AppendEachStill(EmptyStillsTable, w, h, panel, 1))

\* operator()(h, panel)
stills_for_indices_on_panel(w, h, panel) ==
  stills_for_indices_on_panels(w, h, Copies(Len(h), panel))

\* for_hkl_with_individual_ub(h, panel, ub) of the stills predictor
stills_for_hkl_with_individual_ub(w, h, panel, ub) ==
  IF Len(ub) # Len(h) \/ Len(ub) # Len(panel) THEN Raised
  ELSE ReturnedIfRows(AppendEachStill(EmptyStillsTable, w, h, panel, 1),
                      Len(h))

\* the assignments of the stills predictor: entering is not copied,
\* delpsical.rad is added
StillsUpdatedFrom(table, new_table) ==
  [c \in DOMAIN table \cup {"delpsical_rad"} |->
     IF c = "entering" THEN table.entering
     ELSE IF c = "flags" THEN MergeFlags(table.flags, new_table.flags)
     ELSE new_table[c]]

StillsUpdateIfRows(table, predicted) ==
  IF predicted.error \/ nrows(predicted.table) # nrows(table)
    THEN [error |-> TRUE, table |-> table]
    ELSE [error |-> FALSE, table |-> StillsUpdatedFrom(table, predicted.table)]

\* for_reflection_table_with_individual_ub(table, ub) of the stills predictor
stills_for_reflection_table_with_individual_ub(w, table, ub) ==
  IF Len(ub) # nrows(table)
    THEN [error |-> TRUE, table |-> table]
    ELSE StillsUpdateIfRows(table,
           stills_for_hkl_with_individual_ub(w, table.miller_index,
                                             table.panel, ub))

\* for_reflection_table(table, ub) of the stills predictor
stills_for_reflection_table(w, table, ub) ==
  stills_for_reflection_table_with_individual_ub(w, table,
                                                 Copies(nrows(table), ub))

\* ----------------------------------- for_reflection_table under study
\* rows a table holds before the call: index, entering flag, panel, flags
OldRows ==
  { [h |-> h, entering |-> r[1], panel |-> r[2], flags |-> r[3]] :
      h \in Indices,
      r \in { << TRUE, 0, {Predicted} >>, << FALSE, 0, {Indexed} >>,
              << FALSE, 1, {Predicted, Indexed} >>, << TRUE, 1, {} >> } }

OldRowLists == UNION { [1..n -> OldRows] : n \in 0..MaxRows }

\* s1, xyzcal.mm and xyzcal.px of an earlier prediction
Stale == Vec3(1, 1, 1)

OldTable(rows) ==
  [miller_index |-> Column(rows, "h"), entering |-> Column(rows, "entering"),
   panel |-> Column(rows, "panel"), s1 |-> Copies(Len(rows), Stale),
   xyzcal_mm |-> Copies(Len(rows), Stale),
   xyzcal_px |-> Copies(Len(rows), Stale), flags |-> Column(rows, "flags")]

\* the scan-static predictors of the tables: every scan gives the same flags
TableWorlds == { w \in Worlds : w.scan = Scan(0, 4) }

InitTable ==
  /\ NoGenerators
  /\ \E rows \in OldRowLists :
       \/ \E w \in TableWorlds :
            \/ arg = [fn |-> "for_reflection_table", predictor |-> w,
                      table |-> OldTable(rows), ub |-> "ub"]
            \/ \E n \in {Len(rows), Len(rows) + 1} :
                 arg = [fn |-> "for_reflection_table_with_individual_ub",
                        predictor |-> w, table |-> OldTable(rows),
                        ub |-> Copies(n, "ub")]
       \/ \E w \in StillsWorlds :
            \/ arg = [fn |-> "stills_for_reflection_table", predictor |-> w,
                      table |-> OldTable(rows), ub |-> "ub"]
            \/ \E n \in {Len(rows), Len(rows) + 1} :
                 arg = [fn |-> "stills_for_reflection_table_with_individual_ub",
                        predictor |-> w, table |-> OldTable(rows),
                        ub |-> Copies(n, "ub")]
  /\ ret = NoRet

\* predictor.for_reflection_table(table, ub)
ApplyForReflectionTable ==
  /\ arg.fn = "for_reflection_table"
  /\ ~ ret.done
  /\ ret' = [done |-> TRUE,
             value |-> for_reflection_table(arg.predictor, arg.table, arg.ub)]
  /\ UNCHANGED << statics, gen, made, out, arr, solo, last, arg >>

\* predictor.for_reflection_table_with_individual_ub(table, ub)
ApplyForReflectionTableWithIndividualUb ==
  /\ arg.fn = "for_reflection_table_with_individual_ub"
  /\ ~ ret.done
  /\ ret' = [done |-> TRUE,
             value |-> for_reflection_table_with_individual_ub(
                         arg.predictor, arg.table, arg.ub)]
  /\ UNCHANGED << statics, gen, made, out, arr, solo, last, arg >>

\* stills predictor.for_reflection_table(table, ub)
ApplyStillsForReflectionTable ==
  /\ arg.fn = "stills_for_reflection_table"
  /\ ~ ret.done
  /\ ret' = [done |-> TRUE,
             value |-> stills_for_reflection_table(arg.predictor, arg.table,
                                                   arg.ub)]
  /\ UNCHANGED << statics, gen, made, out, arr, solo, last, arg >>

\* stills predictor.for_reflection_table_with_individual_ub(table, ub)
ApplyStillsForReflectionTableWithIndividualUb ==
  /\ arg.fn = "stills_for_reflection_table_with_individual_ub"
  /\ ~ ret.done
  /\ ret' = [done |-> TRUE,
             value |-> stills_for_reflection_table_with_individual_ub(
                         arg.predictor, arg.table, arg.ub)]
  /\ UNCHANGED << statics, gen, made, out, arr, solo, last, arg >>

TableNext ==
  \/ ApplyForReflectionTable
  \/ ApplyForReflectionTableWithIndividualUb
  \/ ApplyStillsForReflectionTable
  \/ ApplyStillsForReflectionTableWithIndividualUb

SpecTable == InitTable /\ [][TableNext]_vars

\* ---------------------------------------------------------------- C19
StaticTableCall ==
  arg.fn \in {"for_reflection_table",
              "for_reflection_table_with_individual_ub"}

StillsTableCall ==
  arg.fn \in {"stills_for_reflection_table",
              "stills_for_reflection_table_with_individual_ub"}

\* ub.size() != table.nrows()
UbSizeDiffers ==
  /\ arg.fn \in {"for_reflection_table_with_individual_ub",
                 "stills_for_reflection_table_with_individual_ub"}
  /\ Len(arg.ub) # nrows(arg.table)

\* a ray of the index with the flag of the row meets the panel of the row
StaticHits(w, h, entering, panel) ==
  \E j \in 1..Len(predict_rays(w, h)) :
    /\ predict_rays(w, h)[j].entering = entering
    /\ \A k \in 1..(j - 1) : predict_rays(w, h)[k].entering # entering
    /\ Intersects(w, panel, predict_rays(w, h)[j].s1)

\* the new prediction of row i of the table intersected
NewPredictionHits(i) ==
  IF StaticTableCall
    THEN StaticHits(arg.predictor, arg.table.miller_index[i],
                    arg.table.entering[i], arg.table.panel[i])
    ELSE StillsIntersects(arg.predictor,
           predict_ray(arg.predictor, arg.table.miller_index[i]).s1,
           arg.table.panel[i])

\* C19: for_reflection_table and for_reflection_table_with_individual_ub of
\* both predictors keep the number of rows, leave every flag bit but
\* Predicted as it was, and leave Predicted set exactly on the rows the new
\* prediction of which intersected; with ub.size() != table.nrows() the call
\* raises and the table is as before.
C19_PredictedRefreshed ==
  ((StaticTableCall \/ StillsTableCall) /\ ret.done) =>
    IF UbSizeDiffers
      THEN ret.value.error /\ ret.value.table = arg.table
      ELSE /\ ~ ret.value.error
           /\ nrows(ret.value.table) = nrows(arg.table)
           /\ \A i \in 1..nrows(arg.table) :
                /\ ret.value.table.flags[i] \ {Predicted} =
                     arg.table.flags[i] \ {Predicted}
                /\ Predicted \in ret.value.table.flags[i]
                     <=> NewPredictionHits(i)

\* ------------------------------------ stills per-hkl variants under study
IndexLists == UNION { [1..n -> Indices] : n \in 0..MaxRows }

PanelLists == UNION { [1..n -> Panels] : n \in 0..MaxRows }

InitStills ==
  /\ NoGenerators
  /\ \E w \in StillsWorlds, h \in IndexLists :
       \/ arg = [fn |-> "stills_for_indices", predictor |-> w, h |-> h]
       \/ \E panel \in Panels :
            arg = [fn |-> "stills_for_indices_on_panel", predictor |-> w,
                   h |-> h, panel |-> panel]
       \/ \E panel \in PanelLists :
            arg = [fn |-> "stills_for_indices_on_panels", predictor |-> w,
                   h |-> h, panel |-> panel]
       \/ \E panel \in PanelLists :
            arg = [fn |-> "stills_for_hkl_with_individual_ub",
                   predictor |-> w, h |-> h, panel |-> panel,
                   ub |-> Copies(Len(h), "ub")]
  /\ ret = NoRet

\* predictor(h)
ApplyStillsForIndices ==
  /\ arg.fn = "stills_for_indices"
  /\ ~ ret.done
  /\ ret' = [done |-> TRUE, value |-> stills_for_indices(arg.predictor, arg.h)]
  /\ UNCHANGED << statics, gen, made, out, arr, solo, last, arg >>

\* predictor(h, panel) with one panel
ApplyStillsForIndicesOnPanel ==
  /\ arg.fn = "stills_for_indices_on_panel"
  /\ ~ ret.done
  /\ ret' = [done |-> TRUE,
             value |-> stills_for_indices_on_panel(arg.predictor, arg.h,
                                                   arg.panel)]
  /\ UNCHANGED << statics, gen, made, out, arr, solo, last, arg >>

\* predictor(h, panel) with an array of panels
ApplyStillsForIndicesOnPanels ==
  /\ arg.fn = "stills_for_indices_on_panels"
  /\ ~ ret.done
  /\ ret' = [done |-> TRUE,
             value |-> stills_for_indices_on_panels(arg.predictor, arg.h,
                                                    arg.panel)]
  /\ UNCHANGED << statics, gen, made, out, arr, solo, last, arg >>

\* predictor.for_hkl_with_individual_ub(h, panel, ub)
ApplyStillsForHklWithIndividualUb ==
  /\ arg.fn = "stills_for_hkl_with_individual_ub"
  /\ ~ ret.done
  /\ ret' = [done |-> TRUE,
             value |-> stills_for_hkl_with_individual_ub(arg.predictor, arg.h,
                                                         arg.panel, arg.ub)]
  /\ UNCHANGED << statics, gen, made, out, arr, solo, last, arg >>

StillsNext ==
  \/ ApplyStillsForIndices
  \/ ApplyStillsForIndicesOnPanel
  \/ ApplyStillsForIndicesOnPanels
  \/ ApplyStillsForHklWithIndividualUb

SpecStills == InitStills /\ [][StillsNext]_vars

\* ---------------------------------------------------------------- C20
StillsCall ==
  arg.fn \in {"stills_for_indices", "stills_for_indices_on_panel",
              "stills_for_indices_on_panels",
              "stills_for_hkl_with_individual_ub"}

\* the arrays of the request have one size
StillsSizesAgree ==
  arg.fn \in {"stills_for_indices_on_panels",
              "stills_for_hkl_with_individual_ub"}
    => Len(arg.panel) = Len(arg.h)

\* C20: the stills per-hkl variants return one row, with its delpsical.rad
\* value, for every requested index, in the order of the request, also when
\* the ray misses the detector or the panel given, and raise no error.
C20_RowsUnconditional ==
  (StillsCall /\ ret.done /\ StillsSizesAgree) =>
    /\ ~ ret.value.error
    /\ ret.value.table.miller_index = arg.h
    /\ ret.value.table.delpsical_rad =
         [i \in 1..Len(arg.h) |-> get_delpsi(arg.predictor, arg.h[i])]

\* ---------------------------------------------------------------- C21
\* every ray of the index with the given flag has its angle in the scan
RaysInRange(w, h, entering) ==
  \A j \in 1..Len(predict_rays(w, h)) :
    predict_rays(w, h)[j].entering = entering
      => is_angle_in_range(w.scan, predict_rays(w, h)[j].angle)

\* the table a scan-static driver returned
StaticRows ==
  IF arg.fn = "for_ub" THEN ret.value ELSE ret.value.table

\* C21: no row of for_ub, for_hkl or for_hkl_with_individual_ub has the
\* Predicted flag set from a ray the rotation angle of which lies outside
\* the oscillation range of the scan.
C21_OutOfRangeDiscarded ==
  ((arg.fn = "for_ub" \/ ForHklCall) /\ ret.done
     /\ (ForHklCall => ~ ret.value.error)) =>
    \A i \in 1..nrows(StaticRows) :
      Predicted \in StaticRows.flags[i]
        => RaysInRange(arg.predictor, StaticRows.miller_index[i],
                       StaticRows.entering[i])

\* ------------------------------------------- scan-varying predictor
\* most images of a scan of the scan-varying predictor
MaxImages == 2

\* a scan whose array range is [first, first + images); image k starts at
\* angle osc0 + k
SvScan(first, images) == [first |-> first, images |-> images, osc0 |-> 1]

\* scan_.get_angle_from_array_index(frame)
get_angle_from_array_index(scan, frame) == scan.osc0 + frame

\* what ReekeIndexGenerator yields for one image before the zero index
YieldLists ==
  { << >>, << Vec3(1, 0, 0) >>, << Vec3(1, 0, 0), Vec3(0, 1, 0) >> }

\* the models of a scan-varying predictor: the scan, the indices generated
\* on each image, the indices that diffract within an image, the impacts
SvWorlds ==
  { [scan |-> SvScan(first, images), yields |-> yields, rays |-> rays,
     hits |-> hits] :
      first \in {0, 2}, images \in 1..MaxImages,
      yields \in UNION { [1..n -> YieldLists] : n \in 1..MaxImages },
      rays \in SUBSET Indices,
      hits \in SUBSET { << 0, RayIn.s1 >>, << 1, RayOut.s1 >> } }

\* predict_rays_(h, A1, A2, frame, 1): the ray of an index that diffracts
\* on the image, at the angle at which the image begins
SvRay(w, h, frame) ==
  Ray(h = Vec3(1, 0, 0), get_angle_from_array_index(w.scan, frame),
      IF h = Vec3(1, 0, 0) THEN RayIn.s1 ELSE RayOut.s1)

\* append_for_ray(p, h, ray, panel) of the scan-varying predictor
sv_append_for_ray(p, w, h, ray) ==
  IF IntersectsDetector(w, ray.s1)
    THEN PushPrediction(
           PushRequest(p, h, ray.entering, ImpactPanel(w, ray.s1)), ray.s1,
           Vec3(get_ray_intersection(ImpactPanel(w, ray.s1), ray.s1)[0],
                get_ray_intersection(ImpactPanel(w, ray.s1), ray.s1)[1],
                ray.angle),
           Vec3(millimeter_to_pixel(
                  get_ray_intersection(ImpactPanel(w, ray.s1), ray.s1))[0],
                millimeter_to_pixel(
                  get_ray_intersection(ImpactPanel(w, ray.s1), ray.s1))[1],
                get_array_index_from_angle(w.scan, ray.angle)),
           {Predicted})
    ELSE p

\* append_for_index(p, A1, A2, frame, h) of the scan-varying predictor
sv_append_for_index(p, w, frame, h) ==
  IF h \in w.rays THEN sv_append_for_ray(p, w, h, SvRay(w, h, frame)) ELSE p

RECURSIVE SvAppendEachIndex(_, _, _, _, _)
SvAppendEachIndex(p, w, frame, indices, i) ==
  IF i > Len(indices) THEN p
  ELSE SvAppendEachIndex(sv_append_for_index(p, w, frame, indices[i]),
                         w, frame, indices, i + 1)

\* the indices generated on the image of a frame
IndicesOfFrame(w, frame) ==
  IF (frame - w.scan.first + 1) \in DOMAIN w.yields
    THEN w.yields[frame - w.scan.first + 1] ELSE << >>

\* append_for_image(p, frame, A1, A2): the table, and the record of the
\* call with the two matrices it was given
append_for_image(run, w, frame, A1, A2) ==
  [table |-> SvAppendEachIndex(run.table, w, frame,
                               IndicesOfFrame(w, frame), 1),
   images |-> Append(run.images, [frame |-> frame, A1 |-> A1, A2 |-> A2])]

\* the loop of for_ub over the frames of the array range; A is indexed
\* from 0 in the code and from 1 here
RECURSIVE ForEachFrame(_, _, _, _)
ForEachFrame(run, w, A, frame) ==
  IF frame >= w.scan.first + w.scan.images
    THEN [error |-> FALSE, table |-> run.table, images |-> run.images]
  ELSE IF ~ (frame - w.scan.first < Len(A) - 1)
    THEN [error |-> TRUE, images |-> run.images]
  ELSE ForEachFrame(
         append_for_image(run, w, frame, A[frame - w.scan.first + 1],
                          A[frame - w.scan.first + 2]),
         w, A, frame + 1)

\* a for_ub(A) that does not test the size of A before the loop
sv_for_ub_unchecked(w, A) ==
  ForEachFrame([table |-> EmptyTable, images |-> << >>], w, A, w.scan.first)

\* for_ub(A) of the scan-varying predictor
sv_for_ub(w, A) ==
  IF Len(A) # w.scan.images + 1
    THEN [error |-> TRUE, images |-> << >>]
    ELSE ForEachFrame([table |-> EmptyTable, images |-> << >>], w, A,
                      w.scan.first)

\* for_ub_on_single_image(frame, A1, A2)
for_ub_on_single_image(w, frame, A1, A2) ==
  IF ~ (frame >= w.scan.first /\ frame < w.scan.first + w.scan.images)
    THEN [error |-> TRUE, images |-> << >>]
    ELSE [error |-> FALSE] @@
         append_for_image([table |-> EmptyTable, images |-> << >>], w, frame,
                          A1, A2)

\* ------------------------------------ scan-varying for_ub under study
\* the matrices of an array A are told apart by their place in it
Matrices(n) == [k \in 1..n |-> k - 1]

InitSv ==
  /\ NoGenerators
  /\ \E w \in SvWorlds :
       /\ Len(w.yields) = w.scan.images
       /\ \/ \E n \in 0..(MaxImages + 2) :
               arg = [fn |-> "sv_for_ub", predictor |-> w, A |-> Matrices(n)]
          \/ \E frame \in (w.scan.first - 1)..(w.scan.first + w.scan.images) :
               arg = [fn |-> "for_ub_on_single_image", predictor |-> w,
                      frame |-> frame, A1 |-> 0, A2 |-> 1]
  /\ ret = NoRet

\* predictor.for_ub(A)
ApplySvForUb ==
  /\ arg.fn = "sv_for_ub"
  /\ ~ ret.done
  /\ ret' = [done |-> TRUE, value |-> sv_for_ub(arg.predictor, arg.A)]
  /\ UNCHANGED << statics, gen, made, out, arr, solo, last, arg >>

\* predictor.for_ub_on_single_image(frame, A1, A2)
ApplyForUbOnSingleImage ==
  /\ arg.fn = "for_ub_on_single_image"
  /\ ~ ret.done
  /\ ret' = [done |-> TRUE,
             value |-> for_ub_on_single_image(arg.predictor, arg.frame,
                                              arg.A1, arg.A2)]
  /\ UNCHANGED << statics, gen, made, out, arr, solo, last, arg >>

SvNext == ApplySvForUb \/ ApplyForUbOnSingleImage

SpecSv == InitSv /\ [][SvNext]_vars

\* ---------------------------------------------------------------- C22
SvForUbDone == arg.fn = "sv_for_ub" /\ ret.done

\* C22: scan-varying for_ub(A) raises and returns no table unless
\* |A| = num_images + 1; otherwise it handles the frames of the array range
\* once each in ascending order, frame f with A[f - offset] and
\* A[f - offset + 1], both within A, and the rows of a frame come before
\* those of the next frame.
C22_FramesInOrder ==
  SvForUbDone =>
    IF Len(arg.A) # arg.predictor.scan.images + 1
      THEN ret.value.error /\ "table" \notin DOMAIN ret.value
      ELSE /\ ~ ret.value.error
           /\ Len(ret.value.images) = arg.predictor.scan.images
           /\ \A k \in 1..Len(ret.value.images) :
                /\ ret.value.images[k].frame = arg.predictor.scan.first + k - 1
                /\ k + 1 <= Len(arg.A)
                /\ ret.value.images[k].A1 = arg.A[k]
                /\ ret.value.images[k].A2 = arg.A[k + 1]
           /\ \A i \in 1..nrows(ret.value.table) :
                \A j \in i..nrows(ret.value.table) :
                  ret.value.table.xyzcal_px[i][2]
                    <= ret.value.table.xyzcal_px[j][2]

\* a scan whose array range does not start at 0 gave rows on two frames
C22_Witness ==
  /\ SvForUbDone /\ ~ ret.value.error
  /\ arg.predictor.scan.first = 2
  /\ Len(ret.value.images) = 2
  /\ nrows(ret.value.table) >= 2
  /\ ret.value.table.xyzcal_px[1][2] = 2
  /\ ret.value.table.xyzcal_px[nrows(ret.value.table)][2] = 3

\* ---------------------------------------------------------------- C23
\* the three columns of the setting have a direction
ColumnsNonZero(ub) == \A i \in 0..2 : Col(ub, i) # Zero

\* column i maximises |u_i . v| among the columns of S, lowest i on a tie
FirstArgMax(ub, v, S, i) ==
  /\ i \in S
  /\ \A j \in S : ~ Greater(AbsDotDir(ub, j, v), AbsDotDir(ub, i, v))
  /\ \A j \in S : j < i => Greater(AbsDotDir(ub, i, v), AbsDotDir(ub, j, v))

\* the index triple (0, 1, 2) after the exchange that puts p first
AfterPSwap(p) == Vec3(p, IF p = 1 THEN 0 ELSE 1, IF p = 2 THEN 0 ELSE 2)

\* the column taken as r out of places 1 and 2 of the triple: the one of
\* place 2 when it is strictly closer to the axis, else the one of place 1
RColumn(ub, axis, t) ==
  IF Greater(AbsDotDir(ub, t[2], axis), AbsDotDir(ub, t[1], axis))
    THEN t[2] ELSE t[1]

PermuteAxesDone == arg.fn = "permute_axes" /\ ret.done

\* C23: permute_axes gives p to the column that maximises |u_i . source|
\* (lowest i on a tie), r to the one of the two others that maximises
\* |u_i . axis| (on a tie the one standing first in the triple after the p
\* swap) and q to the column left; with p = 0 and a tie on the axis the
\* triple is (0, 2, 1).
C23_ArgMaxWithTies ==
  (PermuteAxesDone /\ ColumnsNonZero(arg.ub)) =>
    /\ FirstArgMax(arg.ub, arg.source, 0..2, ret.value.index[0])
    /\ ret.value.index[2] =
         RColumn(arg.ub, arg.axis, AfterPSwap(ret.value.index[0]))
    /\ {ret.value.index[0], ret.value.index[1], ret.value.index[2]} = 0..2
    /\ \A j \in 0..2 \ {ret.value.index[0]} :
         ~ Greater(AbsDotDir(arg.ub, j, arg.axis),
                   AbsDotDir(arg.ub, ret.value.index[2], arg.axis))
    /\ (ret.value.index[0] = 0
          /\ ~ Greater(AbsDotDir(arg.ub, 1, arg.axis),
                       AbsDotDir(arg.ub, 2, arg.axis))
          /\ ~ Greater(AbsDotDir(arg.ub, 2, arg.axis),
                       AbsDotDir(arg.ub, 1, arg.axis)))
         => ret.value.index = Vec3(0, 2, 1)

\* column 0 is p although column 1 is as close to the source, and columns
\* 1 and 2 tie on an axis that is not orthogonal to them
C23_Witness ==
  /\ PermuteAxesDone /\ ColumnsNonZero(arg.ub)
  /\ ret.value.index = Vec3(0, 2, 1)
  /\ ~ Greater(AbsDotDir(arg.ub, 0, arg.source),
               AbsDotDir(arg.ub, 1, arg.source))
  /\ ~ Greater(AbsDotDir(arg.ub, 1, arg.source),
               AbsDotDir(arg.ub, 0, arg.source))
  /\ Dot(Col(arg.ub, 1), arg.axis) # 0
  /\ ~ Greater(AbsDotDir(arg.ub, 1, arg.axis), AbsDotDir(arg.ub, 2, arg.axis))
  /\ ~ Greater(AbsDotDir(arg.ub, 2, arg.axis), AbsDotDir(arg.ub, 1, arg.axis))

\* ---------------------------------------------------------------- C24
\* the Ewald r ranges of the call, each clipped to the resolution range
ClippedRanges(m, p, q) ==
  IF resolution_r_limits(m, p, q, ConstantWithQ(m, p)) = None THEN << >>
  ELSE [i \in 1..Len(ewald_sphere_r_limits(m, p, q, ConstantWithQ(m, p))) |->
          ClipToResolution(
            resolution_r_limits(m, p, q, ConstantWithQ(m, p))[1],
            ewald_sphere_r_limits(m, p, q, ConstantWithQ(m, p))[i])]

\* r lies in one of the closed-open intervals returned
Covered(intervals, r) ==
  \E i \in 1..Len(intervals) : intervals[i][0] <= r /\ r < intervals[i][1]

RLimitsDone == arg.fn = "r_limits" /\ ret.done

\* C24: r_limits discards a clipped Ewald interval [lo, hi] only when it is
\* empty (lo > hi): every r of a clipped interval with lo <= hi, the single
\* integer of lo = hi too, lies in an interval r_limits returns.
C24_OnlyEmptyDiscarded ==
  RLimitsDone =>
    \A i \in 1..Len(ClippedRanges(arg.model_, arg.p, arg.q)) :
      \A r \in ClippedRanges(arg.model_, arg.p, arg.q)[i][0] ..
               ClippedRanges(arg.model_, arg.p, arg.q)[i][1] :
        Covered(ret.value, r)

\* ------------------------------------------------ every driver together
\* the loop of for_ub of the stills predictor: an index is kept when
\* |delpsi| < 0.001 rad, one milliradian
RECURSIVE StillsAppendEachIndex(_, _, _, _)
StillsAppendEachIndex(p, w, indices, i) ==
  IF i > Len(indices) THEN p
  ELSE StillsAppendEachIndex(
         IF Abs(get_delpsi(w, indices[i])) < 1
           THEN stills_append_for_index(p, w, indices[i], -1) ELSE p,
         w, indices, i + 1)

\* for_ub(ub) of the stills predictor
stills_for_ub(w, ub) ==
  Table(StillsAppendEachIndex(EmptyStillsTable, w, ShellIndices, 1))

InitStillsUb ==
  /\ NoGenerators
  /\ \E w \in StillsWorlds :
       arg = [fn |-> "stills_for_ub", predictor |-> w, ub |-> "ub"]
  /\ ret = NoRet

\* stills predictor.for_ub(ub)
ApplyStillsForUb ==
  /\ arg.fn = "stills_for_ub"
  /\ ~ ret.done
  /\ ret' = [done |-> TRUE, value |-> stills_for_ub(arg.predictor, arg.ub)]
  /\ UNCHANGED << statics, gen, made, out, arr, solo, last, arg >>

InitDrivers == InitHkl \/ InitUb \/ InitSv \/ InitStills \/ InitStillsUb

DriversNext ==
  \/ ApplyForHkl
  \/ ApplyForHklWithIndividualUb
  \/ ApplyForUb
  \/ RequestRows
  \/ ApplySvForUb
  \/ ApplyForUbOnSingleImage
  \/ ApplyStillsForIndices
  \/ ApplyStillsForIndicesOnPanel
  \/ ApplyStillsForIndicesOnPanels
  \/ ApplyStillsForHklWithIndividualUb
  \/ ApplyStillsForUb

SpecDrivers == InitDrivers /\ [][DriversNext]_vars

\* ---------------------------------------------------------------- C25
DriverCall ==
  arg.fn \in {"for_ub", "for_hkl", "for_hkl_with_individual_ub", "sv_for_ub",
              "for_ub_on_single_image", "stills_for_ub", "stills_for_indices",
              "stills_for_indices_on_panel", "stills_for_indices_on_panels",
              "stills_for_hkl_with_individual_ub"}

\* the call returned a table
DriverReturned ==
  DriverCall /\ ret.done /\ (arg.fn # "for_ub" => ~ ret.value.error)

ReturnedTable == IF arg.fn = "for_ub" THEN ret.value ELSE ret.value.table

\* C25: in every table a driver returns all the columns have one length:
\* a row is appended to every column or to none, also on a detector miss,
\* without a matching ray and for an angle out of range.
C25_ColumnsOneLength ==
  DriverReturned =>
    \A c \in DOMAIN ReturnedTable :
      Len(ReturnedTable[c]) = nrows(ReturnedTable)

\* for_hkl returned a row without a ray and the row of a miss
C25_Witness ==
  /\ ForHklReturned
  /\ \E i, j \in 1..Len(arg.h) : ~ HasRequestedRay(i) /\ RequestedRayMisses(j)
  /\ Len(ret.value.table.flags) = 2
  /\ Len(ret.value.table.s1) = 2

\* ------------------------------------------------ the margin under study
\* the settings at the end of the image the generators are built with
MarginSettings == { Arr(Identity), Arr(ShearB), Arr(LowerShear) }

\* the rotation axes
MarginAxes == { Vec3(1, 0, 0), Vec3(0, 1, 0), Vec3(0, 0, 1) }

\* ReekeIndexGenerator(ub_beg, ub_end, axis, s0, dmin, margin).to_array()
\* on a generator that is the only one of the program
Emitted(c) == to_array(StaticInit, Build(c)).result

\* the same orientations, beam, axis and dmin with margin + 1
Widened(c) == [c EXCEPT !.margin = @ + 1]

\* a setting at the end of the image that turns the first column as well
SkewB == << 2, 0, 1, -1, 1, 0, 0, 0, 1 >>

\* the configurations over the settings, axes, beams and resolutions, and
\* the skewed setting under a beam along the diagonal with d*max = 3
MarginConfigs ==
  { [ub_beg |-> Arr(Identity), ub_end |-> ub_end, axis |-> axis, s0 |-> s0,
     dstarmax |-> dstarmax, margin |-> margin] :
      ub_end \in MarginSettings, axis \in MarginAxes, s0 \in Vecs \ {Zero},
      dstarmax \in Resolutions, margin \in Margins }
  \cup { Config(Identity, SkewB, << 0, 1, 0 >>, << 2, 2, 2 >>, 3, margin) :
           margin \in Margins }

\* a configuration and a margin m: one generator is built with m, one with
\* m + 1
InitMargin ==
  /\ NoGenerators
  /\ \E c \in MarginConfigs :
       /\ Constructible(c)
       /\ arg = [fn |-> "to_array", c |-> c]
  /\ ret = NoRet

\* both generators are traversed
ApplyToArrayPair ==
  /\ arg.fn = "to_array"
  /\ ~ ret.done
  /\ ret' = [done |-> TRUE,
             value |-> [narrow |-> Emitted(arg.c),
                        wide |-> Emitted(Widened(arg.c))]]
  /\ UNCHANGED << statics, gen, made, out, arr, solo, last, arg >>

MarginNext == ApplyToArrayPair

SpecMargin == InitMargin /\ [][MarginNext]_vars

MarginDone == arg.fn = "to_array" /\ ret.done

\* C26: for the same orientations, beam, axis and dmin, every index that a
\* generator built with margin m >= 0 emits is also emitted by a generator
\* built with margin m + 1.
C26_MonotoneInMargin ==
  MarginDone =>
    \A i \in 1..Len(ret.value.narrow) :
      \E j \in 1..Len(ret.value.wide) :
        ret.value.wide[j] = ret.value.narrow[i]
====
